---- MODULE Spec2Model ----
(***************************************************************************)
(* The Stern-Brocot matrix classes of examples/science/biology/            *)
(* human_interactome.ipynb (Matrix, Matrix3d, MatrixGeneral) and the cells *)
(* that use them.                                                          *)
(*                                                                         *)
(* Python values are records carrying their class in the field cls.  An    *)
(* object that has identity (a matrix, a list) also carries an id, so that *)
(* "a new object" and "the same object" are different things in the model. *)
(* Integers are unbounded, as Python's are.                                *)
(*                                                                         *)
(* A method is an operator from the receiver (and the operand) to a record *)
(* [self, other, ret]: the receiver and the operand as the call leaves     *)
(* them, and the value returned or the exception raised.                   *)
(***************************************************************************)
EXTENDS Integers, Sequences, FiniteSets, TLC

VARIABLES
    \* a notebook session calling methods on one matrix
    self,          \* the receiver: the matrix last constructed (None before)
    other,         \* the operand of the last binary call, as the call left it
    op,            \* the name of the last call
    ret,           \* what the last call returned or raised
    pre,           \* [self, other] as they were when the last call started
    prev,          \* the value the same call returned the time before, if any
    \* a chain of child operations, beside the same chain of products
    root,          \* the matrix the chain starts from
    chain,         \* root.X1.X2...   (lc / mc / rc)
    prod,          \* root * X1 * X2 ...   (Matrix only)
    path,          \* the operators applied so far, "L" / "M" / "R"
    differ,        \* chain.lc != chain.rc, once it is evaluated (None before)
    \* the tree construction cell
    dim,           \* 2: the Matrix cell, 3: the Matrix3d cell
    num_levels,
    level,         \* the outer loop variable; 0 while it is not bound yet
    sequence,
    new_sequence,
    i,             \* the inner loop's index
    dg,            \* the directed graph: [nodes, edges]
    pc,            \* where the cell is: outer, inner, final, done, or an error
    \* a call of create_high_degree_graph(graph, n)
    graph,         \* the caller's graph: [nodes, edges], an edge the set of its ends
    n_min,         \* the argument n
    filtered_graph,
    to_remove,
    fpc,           \* where the call is: called, step1, step2, return, returned
    \* the walk along e_sequence in the tree's graph
    dg2,           \* the copy of dg the walk is drawn into
    e_sequence,
    M,             \* the matrix the walk has reached
    operator,      \* the matrix R or L in the 2x2 cell, 'R' or 'L' in the 3x3 cell
    e_index,       \* how many elements of e_sequence the outer loop has finished
    taken,         \* how many steps the inner loop has made for the current one
    stdout,        \* the operator names printed so far
    wpc,           \* where the walk is: idle, copied, walk, done, or an error
    \* the tree cell with the items of a level processed in any order
    phase,         \* per item of `sequence`: 0 not started, 1 children and edges
                   \* made, 2 body finished
    \* a call of assign_properties(g) of the igraph notebook
    g_graph,           \* the argument g: [n, edgelist, attributes, vs, es]
    node_centralities, \* g.betweenness(), one number per vertex
    edge_centralities, \* g.edge_betweenness(), one number per edge
    communities,       \* the membership list, one community number per vertex
    apc                \* where the call is: idle, called, graph, nodes, returned

callVars  == <<self, other, op, ret, pre, prev>>
chainVars == <<root, chain, prod, path, differ>>
treeVars  == <<dim, num_levels, level, sequence, new_sequence, i, dg, pc>>
filterVars == <<graph, n_min, filtered_graph, to_remove, fpc>>
vars == <<self, other, op, ret, pre, prev, root, chain, prod, path, differ,
          dim, num_levels, level, sequence, new_sequence, i, dg, pc,
          graph, n_min, filtered_graph, to_remove, fpc,
          dg2, e_sequence, M, operator, e_index, taken, stdout, wpc, phase,
          g_graph, node_centralities, edge_centralities, communities, apc>>
walkVars == <<dg2, e_sequence, M, operator, e_index, taken, stdout, wpc>>
assignVars == <<g_graph, node_centralities, edge_centralities, communities, apc>>

\* What a session, a chain, the tree cell and the filter leave alone
notCallVars   == <<chainVars, treeVars, filterVars, walkVars, assignVars, phase>>
notChainVars  == <<callVars, treeVars, filterVars, walkVars, assignVars, phase>>
notTreeVars   == <<callVars, chainVars, filterVars, walkVars, assignVars, phase>>
notFilterVars == <<callVars, chainVars, treeVars, walkVars, assignVars, phase>>
notWalkVars   == <<callVars, chainVars, treeVars, filterVars, assignVars, phase>>
notAssignVars == <<callVars, chainVars, treeVars, filterVars, walkVars, phase>>

----------------------------------------------------------------------------
\* Bounds of the model
MaxElem2 == 2       \* a 2x2 input's elements are in -MaxElem2 .. MaxElem2
MaxElem3 == 1       \* a 3x3 input's elements are in 0 .. MaxElem3
MaxLen == 9         \* an element_list has at most MaxLen elements
MaxElemG == 1       \* an element_list's elements are in 0 .. MaxElemG
MaxPath == 5        \* a chain applies at most MaxPath operators
MaxLevels == 5      \* num_levels is in 0 .. MaxLevels
MaxProteins == 3    \* a protein network has at most MaxProteins nodes
MaxN == 3           \* the filter's n is in 0 .. MaxN
MaxRuns == 3        \* e_sequence has at most MaxRuns elements
MaxRun == 2         \* an element of e_sequence is in 0 .. MaxRun
MaxWalkLevels == 3  \* the tree a walk is drawn into has num_levels <= MaxWalkLevels
MaxVertices == 3     \* the graph given to assign_properties has at most MaxVertices vertices
MaxCommunity == 11   \* the largest community number the community detection gives
MaxCentrality == 50  \* the largest betweenness the centrality calculation gives
MaxAnyItems == 4    \* a level processed in any order has at most MaxAnyItems items

----------------------------------------------------------------------------
\* Python values

None == [cls |-> "NoneType"]

Tuple(items) == [cls |-> "tuple", items |-> items]

Bool(b) == [cls |-> "bool", v |-> b]

List(id, items) == [cls |-> "list", id |-> id, items |-> items]

Raise(name) == [cls |-> name]

IsException(v) ==
    v.cls \in {"NameError", "ValueError", "TypeError", "KeyError", "ZeroDivisionError"}

IsMatrix(v) == v.cls \in {"Matrix", "Matrix3d", "MatrixGeneral"}

\* The ids of an object and of the list it holds.
IdsOf(v) ==
    CASE v.cls \in {"Matrix", "Matrix3d"} -> {v.id}
      [] v.cls = "MatrixGeneral" -> {v.id, v.element_list.id}
      [] v.cls = "list" -> {v.id}
      [] OTHER -> {}

\* The id a new object gets: one that no live object has.
Fresh(used) == CHOOSE n \in 1..(Cardinality(used) + 1) : n \notin used

----------------------------------------------------------------------------
\* class Matrix

Matrix_init(id, a, b, c, d) ==
    [cls |-> "Matrix", id |-> id, a |-> a, b |-> b, c |-> c, d |-> d]

Matrix_elements(m) == Tuple(<<m.a, m.b, m.c, m.d>>)


\* Matrix_mul with the operands in the other order: other * self.
Matrix_mul_Swapped(m, o, used) ==
    [self |-> m, other |-> o,
     ret |-> Matrix_init(Fresh(used),
                o.a * m.a + o.b * m.c, o.a * m.b + o.b * m.d,
                o.c * m.a + o.d * m.c, o.c * m.b + o.d * m.d)]

Matrix_mul(m, o, used) ==
    [self |-> m, other |-> o,
     ret |-> Matrix_init(Fresh(used),
                m.a * o.a + m.b * o.c, m.a * o.b + m.b * o.d,
                m.c * o.a + m.d * o.c, m.c * o.b + m.d * o.d)]

\* elements = [e1 + e2 ...]; self.__class__(elements): the list is the one
\* argument of a constructor that requires four, which raises TypeError.
Matrix_add(m, o, used) ==
    [self |-> m, other |-> o, ret |-> Raise("TypeError")]

\* Matrix_eq that compares the fractions, not the elements.
Matrix_eq_ByFraction(m, o) ==
    [self |-> m, other |-> o,
     ret |-> Bool(<<m.a + m.b, m.c + m.d>> = <<o.a + o.b, o.c + o.d>>)]

Matrix_eq(m, o) ==
    [self |-> m, other |-> o,
     ret |-> Bool(Matrix_elements(m).items = Matrix_elements(o).items)]

\* Matrix_lc that hands the constructor one list of the four elements, as
\* __add__ does.
Matrix_lc_ListArgument(m, used) ==
    [self |-> m, ret |-> Raise("TypeError")]

\* Matrix_lc with the two columns of the child exchanged.
Matrix_lc_ColumnsExchanged(m, used) ==
    [self |-> m,
     ret |-> Matrix_init(Fresh(used), m.b, m.a + m.b, m.d, m.c + m.d)]

Matrix_lc(m, used) ==
    [self |-> m,
     ret |-> Matrix_init(Fresh(used), m.a + m.b, m.b, m.c + m.d, m.d)]


\* Matrix_rc that forgets the second row's sum.
Matrix_rc_FirstRowOnly(m, used) ==
    [self |-> m,
     ret |-> Matrix_init(Fresh(used), m.a, m.a + m.b, m.c, m.d)]

Matrix_rc(m, used) ==
    [self |-> m,
     ret |-> Matrix_init(Fresh(used), m.a, m.a + m.b, m.c, m.c + m.d)]

Matrix_numerator(m) == m.a + m.b

\* Matrix_denominator that takes the first element of the row for its sum.
Matrix_denominator_FirstElement(m) == m.c

Matrix_denominator(m) == m.c + m.d

\* Matrix_fraction with the denominator first.
Matrix_fraction_DenominatorFirst(m) ==
    Tuple(<<Matrix_denominator(m), Matrix_numerator(m)>>)

Matrix_fraction(m) == Tuple(<<Matrix_numerator(m), Matrix_denominator(m)>>)

----------------------------------------------------------------------------
\* class Matrix3d

Matrix3d_init(id, a, b, c, d, e, f, g, h, ii) ==
    [cls |-> "Matrix3d", id |-> id, a |-> a, b |-> b, c |-> c,
     d |-> d, e |-> e, f |-> f, g |-> g, h |-> h, i |-> ii]

Matrix3d_elements(m) == Tuple(<<m.a, m.b, m.c, m.d, m.e, m.f, m.g, m.h, m.i>>)

\* As Matrix_add: the list is the one argument of a constructor that requires
\* nine.
Matrix3d_add(m, o, used) ==
    [self |-> m, other |-> o, ret |-> Raise("TypeError")]

\* Matrix3d_eq as it would be without __eq__: the default of object, which
\* compares identity.
Matrix3d_eq_SameObject(m, o) ==
    [self |-> m, other |-> o, ret |-> Bool(m.id = o.id)]

Matrix3d_eq(m, o) ==
    [self |-> m, other |-> o,
     ret |-> Bool(Matrix3d_elements(m).items = Matrix3d_elements(o).items)]


\* Matrix3d_lc that sums two of the three elements of a row.
Matrix3d_lc_DropsTerm(m, used) ==
    [self |-> m,
     ret |-> Matrix3d_init(Fresh(used),
                m.a + m.b, m.b, m.c,
                m.d + m.e, m.e, m.f,
                m.g + m.h, m.h, m.i)]

Matrix3d_lc(m, used) ==
    [self |-> m,
     ret |-> Matrix3d_init(Fresh(used),
                m.a + m.b + m.c, m.b, m.c,
                m.d + m.e + m.f, m.e, m.f,
                m.g + m.h + m.i, m.h, m.i)]


\* Matrix3d_mc whose second row takes the first row's outer elements.
Matrix3d_mc_WrongRow(m, used) ==
    [self |-> m,
     ret |-> Matrix3d_init(Fresh(used),
                m.a, m.b + m.a + m.c, m.c,
                m.d, m.e + m.a + m.c, m.f,
                m.g, m.h + m.g + m.i, m.i)]

Matrix3d_mc(m, used) ==
    [self |-> m,
     ret |-> Matrix3d_init(Fresh(used),
                m.a, m.b + m.a + m.c, m.c,
                m.d, m.e + m.d + m.f, m.f,
                m.g, m.h + m.g + m.i, m.i)]


\* Matrix3d_rc with a sign slip in the sums.
Matrix3d_rc_Subtracts(m, used) ==
    [self |-> m,
     ret |-> Matrix3d_init(Fresh(used),
                m.a, m.b, m.c - m.b + m.a,
                m.d, m.e, m.f - m.e + m.d,
                m.g, m.h, m.i - m.h + m.g)]

Matrix3d_rc(m, used) ==
    [self |-> m,
     ret |-> Matrix3d_init(Fresh(used),
                m.a, m.b, m.c + m.b + m.a,
                m.d, m.e, m.f + m.e + m.d,
                m.g, m.h, m.i + m.h + m.g)]

Matrix3d_numerator1(m) == m.a + m.b + m.c

Matrix3d_denominator1(m) == m.d + m.e + m.f

Matrix3d_fraction1(m) == Tuple(<<Matrix3d_numerator1(m), Matrix3d_denominator1(m)>>)

Matrix3d_numerator2(m) == m.d + m.e + m.f


\* Matrix3d_denominator2 left as a copy of numerator2.
Matrix3d_denominator2_Copied(m) == m.d + m.e + m.f

Matrix3d_denominator2(m) == m.g + m.h + m.i

Matrix3d_fraction2(m) == Tuple(<<Matrix3d_numerator2(m), Matrix3d_denominator2(m)>>)

----------------------------------------------------------------------------
\* class MatrixGeneral

\* int(sqrt(k)): the float square root is exact for the lengths of the model.
IntSqrt(k) == CHOOSE r \in 0..k : r * r <= k /\ (r + 1) * (r + 1) > k

\* __init__ stores the caller's list itself, not a copy.  On a length that is no
\* square, the raise statement formats len(elements): no name `elements` is in
\* scope there (the argument is element_list, and the notebook binds no global of
\* that name), so evaluating the message raises NameError before ValueError is
\* constructed.
MatrixGeneral_init(id, element_list) ==
    LET rt == IntSqrt(Len(element_list.items))
    IN  IF rt * rt # Len(element_list.items)
        THEN Raise("NameError")
        ELSE [cls |-> "MatrixGeneral", id |-> id,
              element_list |-> element_list, n |-> rt]

\* zip stops at the end of the shorter list; the sums are a new list, handed
\* to the constructor as the list it expects.
MatrixGeneral_add(m, o, used) ==
    LET a == m.element_list.items
        b == o.element_list.items
        lid == Fresh(used)
        new_elements == [x \in 1..(IF Len(a) < Len(b) THEN Len(a) ELSE Len(b)) |->
                            a[x] + b[x]]
    IN  [self |-> m, other |-> o,
         ret |-> MatrixGeneral_init(Fresh(used \cup {lid}), List(lid, new_elements))]

MatrixGeneral_eq(m, o) ==
    [self |-> m, other |-> o,
     ret |-> Bool(m.element_list.items = o.element_list.items)]

\* The property returns the list the matrix holds, not a tuple of it.
MatrixGeneral_elements(m) == m.element_list

\* new_element = 0; for k in range(n): new_element += element_list[r * n + k]
RECURSIVE RowAccumulate(_, _, _, _)
RowAccumulate(items, n, r, k) ==
    IF k = 0 THEN 0
    ELSE RowAccumulate(items, n, r, k - 1) + items[r * n + (k - 1) + 1]


\* MatrixGeneral_lc that writes the sums into the matrix's own list and returns
\* the matrix itself.
MatrixGeneral_lc_InPlace(m, used) ==
    LET items == m.element_list.items
        new_elements ==
            [x \in 1..(m.n * m.n) |->
                LET r == (x - 1) \div m.n
                    j == (x - 1) % m.n
                IN  IF j = 0 THEN RowAccumulate(items, m.n, r, m.n)
                    ELSE items[r * m.n + j + 1]]
        changed == [m EXCEPT !.element_list.items = new_elements]
    IN  [self |-> changed, ret |-> changed]

\* MatrixGeneral_lc whose sum leaves the last element of the row out.
MatrixGeneral_lc_ShortSum(m, used) ==
    LET items == m.element_list.items
        lid == Fresh(used)
        new_elements ==
            [x \in 1..(m.n * m.n) |->
                LET r == (x - 1) \div m.n
                    j == (x - 1) % m.n
                IN  IF j = 0 THEN RowAccumulate(items, m.n, r, m.n - 1)
                    ELSE items[r * m.n + j + 1]]
    IN  [self |-> m,
         ret |-> MatrixGeneral_init(Fresh(used \cup {lid}), List(lid, new_elements))]

\* Position x of new_elements is the x-th append of the two nested loops:
\* row r = (x - 1) div n, column j = (x - 1) mod n.
MatrixGeneral_lc(m, used) ==
    LET items == m.element_list.items
        lid == Fresh(used)
        new_elements ==
            [x \in 1..(m.n * m.n) |->
                LET r == (x - 1) \div m.n
                    j == (x - 1) % m.n
                IN  IF j = 0 THEN RowAccumulate(items, m.n, r, m.n)
                    ELSE items[r * m.n + j + 1]]
    IN  [self |-> m,
         ret |-> MatrixGeneral_init(Fresh(used \cup {lid}), List(lid, new_elements))]


\* MatrixGeneral_rc that takes column n, which no row has, for the last column.
MatrixGeneral_rc_OffByOne(m, used) ==
    LET items == m.element_list.items
        lid == Fresh(used)
        new_elements ==
            [x \in 1..(m.n * m.n) |->
                LET r == (x - 1) \div m.n
                    j == (x - 1) % m.n
                IN  IF j = m.n THEN RowAccumulate(items, m.n, r, m.n)
                    ELSE items[r * m.n + j + 1]]
    IN  [self |-> m,
         ret |-> MatrixGeneral_init(Fresh(used \cup {lid}), List(lid, new_elements))]

MatrixGeneral_rc(m, used) ==
    LET items == m.element_list.items
        lid == Fresh(used)
        new_elements ==
            [x \in 1..(m.n * m.n) |->
                LET r == (x - 1) \div m.n
                    j == (x - 1) % m.n
                IN  IF j = m.n - 1 THEN RowAccumulate(items, m.n, r, m.n)
                    ELSE items[r * m.n + j + 1]]
    IN  [self |-> m,
         ret |-> MatrixGeneral_init(Fresh(used \cup {lid}), List(lid, new_elements))]

----------------------------------------------------------------------------
\* Strings are sequences of characters.  '{}'.format(n) of an integer is its
\* decimal numeral, with a minus sign before a negative one.

Digit(k) == <<"0", "1", "2", "3", "4", "5", "6", "7", "8", "9">>[k + 1]

RECURSIVE Numeral(_)
Numeral(n) == IF n < 10 THEN <<Digit(n)>> ELSE Append(Numeral(n \div 10), Digit(n % 10))

Str(n) == IF n < 0 THEN <<"-">> \o Numeral(0 - n) ELSE Numeral(n)

\* Matrix_fraction_string that leaves the denominator out.
Matrix_fraction_string_NumeratorOnly(m) ==
    Str(Matrix_fraction(m).items[1]) \o <<"/">>

\* '{}/{}'.format(*self.fraction)
Matrix_fraction_string(m) ==
    Str(Matrix_fraction(m).items[1]) \o <<"/">> \o Str(Matrix_fraction(m).items[2])

Matrix3d_fraction1_string(m) ==
    Str(Matrix3d_fraction1(m).items[1]) \o <<"/">> \o Str(Matrix3d_fraction1(m).items[2])

Matrix3d_fraction2_string(m) ==
    Str(Matrix3d_fraction2(m).items[1]) \o <<"/">> \o Str(Matrix3d_fraction2(m).items[2])

\* '{}, {}'.format(self.fraction1_string, self.fraction2_string)
Matrix3d_fractions_string(m) ==
    Matrix3d_fraction1_string(m) \o <<",", " ">> \o Matrix3d_fraction2_string(m)

\* numerator / denominator: the quotient, kept as the pair it is computed from;
\* dividing by zero raises.
Divide(n, d) ==
    IF d = 0 THEN Raise("ZeroDivisionError") ELSE [cls |-> "float", num |-> n, den |-> d]

Matrix_decimal(m) == Divide(Matrix_numerator(m), Matrix_denominator(m))

Matrix3d_decimal1(m) == Divide(Matrix3d_numerator1(m), Matrix3d_denominator1(m))

Matrix3d_decimal2(m) == Divide(Matrix3d_numerator2(m), Matrix3d_denominator2(m))

----------------------------------------------------------------------------
\* Attribute lookup: the method of the receiver's class

lc(m, used) ==
    CASE m.cls = "Matrix" -> Matrix_lc(m, used)
      [] m.cls = "Matrix3d" -> Matrix3d_lc(m, used)
      [] m.cls = "MatrixGeneral" -> MatrixGeneral_lc(m, used)

rc(m, used) ==
    CASE m.cls = "Matrix" -> Matrix_rc(m, used)
      [] m.cls = "Matrix3d" -> Matrix3d_rc(m, used)
      [] m.cls = "MatrixGeneral" -> MatrixGeneral_rc(m, used)

eq(m, o) ==
    CASE m.cls = "Matrix" -> Matrix_eq(m, o)
      [] m.cls = "Matrix3d" -> Matrix3d_eq(m, o)
      [] m.cls = "MatrixGeneral" -> MatrixGeneral_eq(m, o)

add(m, o, used) ==
    CASE m.cls = "Matrix" -> Matrix_add(m, o, used)
      [] m.cls = "Matrix3d" -> Matrix3d_add(m, o, used)
      [] m.cls = "MatrixGeneral" -> MatrixGeneral_add(m, o, used)

\* m != o: no class defines __ne__, so Python inverts what __eq__ returns.
ne(m, o) == [self |-> m, other |-> o, ret |-> Bool(~eq(m, o).ret.v)]

elements(m) ==
    CASE m.cls = "Matrix" -> Matrix_elements(m)
      [] m.cls = "Matrix3d" -> Matrix3d_elements(m)
      [] m.cls = "MatrixGeneral" -> MatrixGeneral_elements(m)

----------------------------------------------------------------------------
\* The notebook's global matrices

I == Matrix_init(1, 1, 0, 0, 1)

L == Matrix_init(2, 1, 0, 1, 1)

R == Matrix_init(3, 1, 1, 0, 1)

I3d == Matrix3d_init(1, 1, 0, 0, 0, 1, 0, 0, 0, 1)

\* The identity of size n as a MatrixGeneral, built from a list as the cells of
\* the 4x4 and 5x5 walks build theirs.
IGeneral(n) ==
    MatrixGeneral_init(2, List(1, [x \in 1..(n * n) |->
                                    IF (x - 1) \div n = (x - 1) % n THEN 1 ELSE 0]))

GlobalIds == IdsOf(I) \cup IdsOf(L) \cup IdsOf(R)

\* The ids of the objects alive during a call on m with operand o.
Live(m, o) == GlobalIds \cup IdsOf(m) \cup IdsOf(o)

----------------------------------------------------------------------------
\* A session: its first statement constructs a matrix, the next ones call one of
\* its methods, once or again

Elems2 == (0 - MaxElem2)..MaxElem2

Elems3 == 0..MaxElem3

ElementLists == UNION {[1..k -> 0..MaxElemG] : k \in 0..MaxLen}

\* What == compares of a returned value: a matrix's or a list's elements, or the
\* value itself.
ValueOf(v) ==
    CASE IsMatrix(v) -> Tuple(IF v.cls = "MatrixGeneral" THEN v.element_list.items
                              ELSE elements(v).items)
      [] v.cls = "list" -> Tuple(v.items)
      [] OTHER -> v

\* The value the same call on the same operand returned the time before.
Before(name, o) ==
    IF op = name /\ pre.other.cls = o.cls /\ IdsOf(pre.other) = IdsOf(o)
    THEN ValueOf(ret) ELSE None

\* A method is called on the matrix just constructed, or called again.
CanCall(name) ==
    IsMatrix(self) /\ op \in {"Matrix", "Matrix3d", "MatrixGeneral", name}

Returned(name, m, o, out) ==
    /\ op' = name
    /\ pre' = [self |-> m, other |-> o]
    /\ self' = out.self
    /\ other' = out.other
    /\ ret' = out.ret
    /\ prev' = Before(name, o)
    /\ UNCHANGED notCallVars

New_Matrix ==
    /\ op = "none"
    /\ \E a, b, c, d \in Elems2 :
         LET m == Matrix_init(Fresh(GlobalIds), a, b, c, d)
         IN  Returned("Matrix", None, None, [self |-> m, other |-> None, ret |-> m])

New_Matrix3d ==
    /\ op = "none"
    /\ \E a, b, c, d, e, f, g, h, ii \in Elems3 :
         LET m == Matrix3d_init(Fresh(GlobalIds), a, b, c, d, e, f, g, h, ii)
         IN  Returned("Matrix3d", None, None, [self |-> m, other |-> None, ret |-> m])

\* The caller's list is the operand; a construction that raises binds no matrix.
New_MatrixGeneral ==
    /\ op = "none"
    /\ \E items \in ElementLists :
         LET element_list == List(Fresh(GlobalIds), items)
             m == MatrixGeneral_init(Fresh(GlobalIds \cup IdsOf(element_list)),
                                     element_list)
         IN  Returned("MatrixGeneral", None, element_list,
                      [self |-> IF IsException(m) THEN None ELSE m,
                       other |-> element_list, ret |-> m])

Call_lc ==
    /\ CanCall("lc")
    /\ LET out == lc(self, Live(self, None))
       IN  Returned("lc", self, None, [self |-> out.self, other |-> None, ret |-> out.ret])

Call_rc ==
    /\ CanCall("rc")
    /\ LET out == rc(self, Live(self, None))
       IN  Returned("rc", self, None, [self |-> out.self, other |-> None, ret |-> out.ret])

Call_mc ==
    /\ CanCall("mc")
    /\ self.cls = "Matrix3d"
    /\ LET out == Matrix3d_mc(self, Live(self, None))
       IN  Returned("mc", self, None, [self |-> out.self, other |-> None, ret |-> out.ret])

\* A second matrix constructed from the values m was constructed from.
Again(m, used) ==
    CASE m.cls = "Matrix" -> Matrix_init(Fresh(used), m.a, m.b, m.c, m.d)
      [] m.cls = "Matrix3d" ->
            Matrix3d_init(Fresh(used), m.a, m.b, m.c, m.d, m.e, m.f, m.g, m.h, m.i)
      [] m.cls = "MatrixGeneral" ->
            LET lid == Fresh(used)
            IN  MatrixGeneral_init(Fresh(used \cup {lid}),
                                   List(lid, m.element_list.items))

\* The operand is the receiver itself, a second matrix constructed like it, or
\* one of the notebook's matrices.
Operands(m) ==
    CASE m.cls = "Matrix" -> {m, Again(m, Live(m, None)), I, L, R}
      [] m.cls = "Matrix3d" -> {m, Again(m, Live(m, None)), I3d}
      [] m.cls = "MatrixGeneral" -> {m, Again(m, Live(m, None)), IGeneral(m.n)}

Call_mul ==
    /\ CanCall("mul")
    /\ self.cls = "Matrix"
    /\ \E o \in Operands(self) :
         Returned("mul", self, o, Matrix_mul(self, o, Live(self, o)))

Call_eq ==
    /\ CanCall("eq")
    /\ \E o \in Operands(self) : Returned("eq", self, o, eq(self, o))

Call_add ==
    /\ CanCall("add")
    /\ \E o \in Operands(self) : Returned("add", self, o, add(self, o, Live(self, o)))

Call_elements ==
    /\ CanCall("elements")
    /\ Returned("elements", self, None,
                [self |-> self, other |-> None, ret |-> elements(self)])

Call_fraction ==
    /\ CanCall("fraction")
    /\ self.cls = "Matrix"
    /\ Returned("fraction", self, None,
                [self |-> self, other |-> None, ret |-> Matrix_fraction(self)])

Call_fraction1 ==
    /\ CanCall("fraction1")
    /\ self.cls = "Matrix3d"
    /\ Returned("fraction1", self, None,
                [self |-> self, other |-> None, ret |-> Matrix3d_fraction1(self)])

Call_fraction2 ==
    /\ CanCall("fraction2")
    /\ self.cls = "Matrix3d"
    /\ Returned("fraction2", self, None,
                [self |-> self, other |-> None, ret |-> Matrix3d_fraction2(self)])

ChainIdle ==
    root = None /\ chain = None /\ prod = None /\ path = <<>> /\ differ = None

TreeIdle ==
    /\ dim = 0 /\ num_levels = 0 /\ level = 0 /\ sequence = <<>>
    /\ new_sequence = <<>> /\ i = 0 /\ dg = None /\ pc = "idle"

CallsIdle ==
    /\ self = None /\ other = None /\ op = "none" /\ ret = None
    /\ pre = [self |-> None, other |-> None] /\ prev = None

FilterIdle ==
    /\ graph = None /\ n_min = 0 /\ filtered_graph = None
    /\ to_remove = {} /\ fpc = "idle"

WalkIdle ==
    /\ dg2 = None /\ e_sequence = <<>> /\ M = None /\ operator = None
    /\ e_index = 0 /\ taken = 0 /\ stdout = <<>> /\ wpc = "idle"
    /\ phase = <<>>

AssignIdle ==
    /\ g_graph = None /\ node_centralities = <<>> /\ edge_centralities = <<>>
    /\ communities = <<>> /\ apc = "idle"

Init == CallsIdle /\ ChainIdle /\ TreeIdle /\ FilterIdle /\ WalkIdle /\ AssignIdle

Next ==
    \/ New_Matrix \/ New_Matrix3d \/ New_MatrixGeneral
    \/ Call_lc \/ Call_rc \/ Call_mc \/ Call_mul \/ Call_eq \/ Call_add
    \/ Call_elements \/ Call_fraction \/ Call_fraction1 \/ Call_fraction2

Spec == Init /\ [][Next]_vars

----------------------------------------------------------------------------
\* A chain: the cell that compares I * L * L * R * L * R with I.lc.lc.rc.lc.rc,
\* from any 2x2 matrix or from an identity, with any operators

\* A chain starts from any 2x2 matrix, from an identity of any class, or from
\* a 3x3 matrix with one row of elements of either sign above two zero rows.
ChainRoots ==
    {Matrix_init(Fresh(GlobalIds), a, b, c, d) : a, b, c, d \in Elems2}
        \cup {I, I3d}
        \cup {IGeneral(n) : n \in 0..IntSqrt(MaxLen)}
        \cup {Matrix3d_init(Fresh(GlobalIds), a, b, c, 0, 0, 0, 0, 0, 0) :
                  a, b, c \in (0 - 1)..1}

ChainLive == GlobalIds \cup IdsOf(root) \cup IdsOf(chain) \cup IdsOf(prod)

\* M * operator beside M.lc / M.rc; Matrix3d has no product.
Step(name, factor, child) ==
    /\ Len(path) < MaxPath
    /\ path' = Append(path, name)
    /\ chain' = child
    /\ prod' = IF root.cls = "Matrix"
               THEN Matrix_mul(prod, factor, ChainLive).ret ELSE None
    /\ differ' = None
    /\ UNCHANGED <<root, notChainVars>>

Step_L ==
    /\ IsMatrix(root)
    /\ Step("L", L, lc(chain, ChainLive).ret)

Step_R ==
    /\ IsMatrix(root)
    /\ Step("R", R, rc(chain, ChainLive).ret)

Step_M ==
    /\ root.cls = "Matrix3d"
    /\ Step("M", None, Matrix3d_mc(chain, ChainLive).ret)

InitChain ==
    /\ root \in ChainRoots
    /\ chain = root
    /\ prod = IF root.cls = "Matrix" THEN root ELSE None
    /\ path = <<>>
    /\ differ = None
    /\ CallsIdle /\ TreeIdle /\ FilterIdle /\ WalkIdle /\ AssignIdle

\* chain.lc != chain.rc
Compare_children ==
    /\ IsMatrix(root)
    /\ differ = None
    /\ differ' = ne(lc(chain, ChainLive).ret, rc(chain, ChainLive).ret).ret
    /\ UNCHANGED <<root, chain, prod, path, notChainVars>>

NextChain == Step_L \/ Step_R \/ Step_M \/ Compare_children

SpecChain == InitChain /\ [][NextChain]_vars

----------------------------------------------------------------------------
\* The directed graph (networkx.DiGraph): attribute dictionaries by node and by
\* edge.  A dictionary is a function from keys to values.

EmptyGraph == [nodes |-> <<>>, edges |-> <<>>]

\* add_edge(u, v): adds the nodes and the edge that are not there yet.
add_edge(g, u, v) ==
    LET withU == IF u \in DOMAIN g.nodes THEN g.nodes ELSE (u :> <<>>) @@ g.nodes
        withV == IF v \in DOMAIN withU THEN withU ELSE (v :> <<>>) @@ withU
    IN  [nodes |-> withV,
         edges |-> IF <<u, v>> \in DOMAIN g.edges THEN g.edges
                   ELSE (<<u, v>> :> <<>>) @@ g.edges]

\* dg.edges[(u, v)][key] = value
SetEdge(g, u, v, key, value) ==
    [g EXCEPT !.edges = (<<u, v>> :> ((key :> value) @@ g.edges[<<u, v>>])) @@ g.edges]

\* dg.nodes[u][key] = value
SetNode(g, u, key, value) ==
    [g EXCEPT !.nodes = (u :> ((key :> value) @@ g.nodes[u])) @@ g.nodes]

\* Several keys of one node, set one after the other.
RECURSIVE SetNodeAll(_, _, _)
SetNodeAll(g, u, pairs) ==
    IF pairs = <<>> THEN g
    ELSE SetNodeAll(SetNode(g, u, pairs[1][1], pairs[1][2]), u, Tail(pairs))

RECURSIVE SetEdgeAll(_, _, _, _)
SetEdgeAll(g, u, v, pairs) ==
    IF pairs = <<>> THEN g
    ELSE SetEdgeAll(SetEdge(g, u, v, pairs[1][1], pairs[1][2]), u, v, Tail(pairs))

----------------------------------------------------------------------------
\* The tree construction cells

\* The message's arguments; formatting the decimal raises when it does.
to_hover_message(m) ==
    IF IsException(Matrix_decimal(m)) THEN Matrix_decimal(m)
    ELSE [cls |-> "str",
          args |-> <<Matrix_elements(m).items, Matrix_fraction_string(m), Matrix_decimal(m)>>]

to_hover_message3d(m) ==
    IF IsException(Matrix3d_decimal1(m)) THEN Matrix3d_decimal1(m)
    ELSE IF IsException(Matrix3d_decimal2(m)) THEN Matrix3d_decimal2(m)
    ELSE [cls |-> "str",
          args |-> <<Matrix3d_elements(m).items,
                     Matrix3d_fraction1_string(m), Matrix3d_decimal1(m),
                     Matrix3d_fraction2_string(m), Matrix3d_decimal2(m)>>]

IdsOfAll(ms) == UNION {IdsOf(ms[k]) : k \in 1..Len(ms)}

TreeLive == GlobalIds \cup IdsOfAll(sequence) \cup IdsOfAll(new_sequence)

\* The first exception among the values, or None.
RECURSIVE FirstException(_)
FirstException(vs) ==
    IF vs = <<>> THEN None
    ELSE IF IsException(Head(vs)) THEN Head(vs) ELSE FirstException(Tail(vs))

\* (-len(sequence) / 2 + k) * step, a float in the code: step is even, so the
\* value is the integer k * step - len(sequence) * (step / 2).
Coordinate(k, length, step) == k * step - length * (step \div 2)


\* OuterNext with the loop's bound included: range(1, num_levels + 1).
OuterNext_Inclusive ==
    /\ pc = "outer"
    /\ IF level + 1 <= num_levels
       THEN /\ level' = level + 1
            /\ new_sequence' = <<>>
            /\ i' = 0
            /\ pc' = "inner"
       ELSE /\ i' = 0
            /\ pc' = "final"
            /\ UNCHANGED <<level, new_sequence>>
    /\ UNCHANGED <<dim, num_levels, sequence, dg, notTreeVars>>

\* for level in range(1, num_levels): the next value, or the end of the loop.
OuterNext ==
    /\ pc = "outer"
    /\ IF level + 1 < num_levels
       THEN /\ level' = level + 1
            /\ new_sequence' = <<>>
            /\ i' = 0
            /\ pc' = "inner"
       ELSE /\ i' = 0
            /\ pc' = "final"
            /\ UNCHANGED <<level, new_sequence>>
    /\ UNCHANGED <<dim, num_levels, sequence, dg, notTreeVars>>

\* The children of the 2x2 cell's loop body, in the order they are appended.
Children2(item, used) ==
    LET child1 == Matrix_lc(item, used).ret
        child2 == Matrix_rc(item, used \cup IdsOf(child1)).ret
    IN  <<child1, child2>>

\* Graph2 that stores the left child's elements on the right child's node.
Graph2_CopiedElements(g, item, child1, child2) ==
    LET p  == Matrix_fraction_string(item)
        c1 == Matrix_fraction_string(child1)
        c2 == Matrix_fraction_string(child2)
        g1 == add_edge(add_edge(g, p, c1), p, c2)
        g2 == SetEdgeAll(g1, p, c1,
                  << <<"label", "L">>, <<"color", "red">>, <<"label_color", "red">> >>)
        g3 == SetEdge(g2, p, c2, "label", "R")
        g4 == SetNode(g3, p, "fraction", Matrix_fraction(item))
        g5 == SetNode(g4, c1, "fraction", Matrix_fraction(child1))
        g6 == SetNode(g5, c2, "fraction", Matrix_fraction(child2))
        g7 == SetNode(g6, p, "elements", Matrix_elements(item))
        g8 == SetNode(g7, c1, "elements", Matrix_elements(child1))
    IN  SetNode(g8, c2, "elements", Matrix_elements(child1))

\* The graph after the 2x2 cell's loop body, up to the hover messages, which
\* come next and may raise.
Graph2(g, item, child1, child2) ==
    LET p  == Matrix_fraction_string(item)
        c1 == Matrix_fraction_string(child1)
        c2 == Matrix_fraction_string(child2)
        g1 == add_edge(add_edge(g, p, c1), p, c2)
        g2 == SetEdgeAll(g1, p, c1,
                  << <<"label", "L">>, <<"color", "red">>, <<"label_color", "red">> >>)
        g3 == SetEdge(g2, p, c2, "label", "R")
        g4 == SetNode(g3, p, "fraction", Matrix_fraction(item))
        g5 == SetNode(g4, c1, "fraction", Matrix_fraction(child1))
        g6 == SetNode(g5, c2, "fraction", Matrix_fraction(child2))
        g7 == SetNode(g6, p, "elements", Matrix_elements(item))
        g8 == SetNode(g7, c1, "elements", Matrix_elements(child1))
    IN  SetNode(g8, c2, "elements", Matrix_elements(child2))

\* The rest of the body: the hover messages, the parent's coordinates, the left
\* child's colour.
Decorate2(g, item, child1, child2, k, length, lvl) ==
    LET p  == Matrix_fraction_string(item)
        c1 == Matrix_fraction_string(child1)
        c2 == Matrix_fraction_string(child2)
        g1 == SetNode(g, p, "hover", to_hover_message(item))
        g2 == SetNode(g1, c1, "hover", to_hover_message(child1))
        g3 == SetNode(g2, c2, "hover", to_hover_message(child2))
        g4 == SetNodeAll(g3, p, << <<"x", Coordinate(k, length, 50)>>,
                                   <<"y", (lvl - 1) * 50>> >>)
    IN  SetNodeAll(g4, c1, << <<"color", "red">>, <<"label_color", "red">> >>)

InnerStep2 ==
    /\ pc = "inner" /\ dim = 2 /\ i < Len(sequence)
    /\ LET item == sequence[i + 1]
           children == Children2(item, TreeLive)
           g == Graph2(dg, item, children[1], children[2])
           exc == FirstException(<<to_hover_message(item),
                                   to_hover_message(children[1]),
                                   to_hover_message(children[2])>>)
       IN  /\ new_sequence' = new_sequence \o children
           /\ IF IsException(exc)
              THEN dg' = g /\ pc' = exc.cls /\ i' = i
              ELSE /\ dg' = Decorate2(g, item, children[1], children[2],
                                      i, Len(sequence), level)
                   /\ pc' = pc
                   /\ i' = i + 1
    /\ UNCHANGED <<dim, num_levels, level, sequence, notTreeVars>>

\* Children3 that appends the right child first and the left child last.
Children3_RightFirst(item, used) ==
    LET child1 == Matrix3d_lc(item, used).ret
        child2 == Matrix3d_mc(item, used \cup IdsOf(child1)).ret
        child3 == Matrix3d_rc(item, used \cup IdsOf(child1) \cup IdsOf(child2)).ret
    IN  <<child3, child2, child1>>

\* The children of the 3x3 cell's loop body, in the order they are appended.
Children3(item, used) ==
    LET child1 == Matrix3d_lc(item, used).ret
        child2 == Matrix3d_mc(item, used \cup IdsOf(child1)).ret
        child3 == Matrix3d_rc(item, used \cup IdsOf(child1) \cup IdsOf(child2)).ret
    IN  <<child1, child2, child3>>

Graph3(g, item, child1, child2, child3) ==
    LET p  == Matrix3d_fractions_string(item)
        c1 == Matrix3d_fractions_string(child1)
        c2 == Matrix3d_fractions_string(child2)
        c3 == Matrix3d_fractions_string(child3)
        g1 == add_edge(add_edge(add_edge(g, p, c1), p, c2), p, c3)
        g2 == SetEdgeAll(g1, p, c1,
                  << <<"label", "L">>, <<"color", "red">>, <<"label_color", "red">> >>)
        g3 == SetEdgeAll(g2, p, c2,
                  << <<"label", "M">>, <<"color", "blue">>, <<"label_color", "blue">> >>)
        g4 == SetEdge(g3, p, c3, "label", "R")
        g5 == SetNode(g4, p, "elements", Matrix3d_elements(item))
        g6 == SetNode(g5, c1, "elements", Matrix3d_elements(child1))
        g7 == SetNode(g6, c2, "elements", Matrix3d_elements(child2))
    IN  SetNode(g7, c3, "elements", Matrix3d_elements(child3))

Decorate3(g, item, child1, child2, child3, k, length, lvl) ==
    LET p  == Matrix3d_fractions_string(item)
        c1 == Matrix3d_fractions_string(child1)
        c2 == Matrix3d_fractions_string(child2)
        c3 == Matrix3d_fractions_string(child3)
        g1 == SetNode(g, p, "hover", to_hover_message3d(item))
        g2 == SetNode(g1, c1, "hover", to_hover_message3d(child1))
        g3 == SetNode(g2, c2, "hover", to_hover_message3d(child2))
        g4 == SetNode(g3, c3, "hover", to_hover_message3d(child3))
        g5 == SetNodeAll(g4, p, << <<"x", Coordinate(k, length, 100)>>,
                                   <<"y", (lvl - 1) * 50>> >>)
        g6 == SetNodeAll(g5, c1, << <<"color", "red">>, <<"label_color", "red">> >>)
    IN  SetNodeAll(g6, c2, << <<"color", "blue">>, <<"label_color", "blue">> >>)

InnerStep3 ==
    /\ pc = "inner" /\ dim = 3 /\ i < Len(sequence)
    /\ LET item == sequence[i + 1]
           children == Children3(item, TreeLive)
           g == Graph3(dg, item, children[1], children[2], children[3])
           exc == FirstException(<<to_hover_message3d(item),
                                   to_hover_message3d(children[1]),
                                   to_hover_message3d(children[2]),
                                   to_hover_message3d(children[3])>>)
       IN  /\ new_sequence' = new_sequence \o children
           /\ IF IsException(exc)
              THEN dg' = g /\ pc' = exc.cls /\ i' = i
              ELSE /\ dg' = Decorate3(g, item, children[1], children[2], children[3],
                                      i, Len(sequence), level)
                   /\ pc' = pc
                   /\ i' = i + 1
    /\ UNCHANGED <<dim, num_levels, level, sequence, notTreeVars>>

\* sequence = new_sequence, at the end of a level
InnerDone ==
    /\ pc = "inner" /\ i = Len(sequence)
    /\ sequence' = new_sequence
    /\ pc' = "outer"
    /\ UNCHANGED <<dim, num_levels, level, new_sequence, i, dg, notTreeVars>>

\* The label the cell uses for a matrix.
Label(m) ==
    IF m.cls = "Matrix" THEN Matrix_fraction_string(m) ELSE Matrix3d_fractions_string(m)

\* Node attributes for lowest level: dg.nodes[label] raises KeyError for a label
\* that is no node, and level * 50 raises NameError while level is not bound.
FinalStep ==
    /\ pc = "final" /\ i < Len(sequence)
    /\ LET item == sequence[i + 1]
           u == Label(item)
       IN  IF u \notin DOMAIN dg.nodes
           THEN pc' = "KeyError" /\ UNCHANGED <<dg, i>>
           ELSE IF level = 0
           THEN /\ pc' = "NameError"
                /\ dg' = SetNode(dg, u, "x",
                            Coordinate(i, Len(sequence), IF dim = 2 THEN 50 ELSE 100))
                /\ i' = i
           ELSE /\ dg' = SetNodeAll(dg, u,
                            << <<"x", Coordinate(i, Len(sequence),
                                                 IF dim = 2 THEN 50 ELSE 100)>>,
                               <<"y", level * 50>> >>)
                /\ i' = i + 1
                /\ pc' = pc
    /\ UNCHANGED <<dim, num_levels, level, sequence, new_sequence, notTreeVars>>

FinalDone ==
    /\ pc = "final" /\ i = Len(sequence)
    /\ pc' = "done"
    /\ UNCHANGED <<dim, num_levels, level, sequence, new_sequence, i, dg,
                   notTreeVars>>

\* The cell up to its first loop: num_levels is the caller's, the root is the
\* identity, the graph is empty, level is not bound.
InitTree ==
    /\ dim \in {2, 3}
    /\ num_levels \in 0..MaxLevels
    /\ level = 0
    /\ sequence = <<IF dim = 2 THEN Matrix_init(Fresh(GlobalIds), 1, 0, 0, 1)
                    ELSE Matrix3d_init(Fresh(GlobalIds), 1, 0, 0, 0, 1, 0, 0, 0, 1)>>
    /\ new_sequence = <<>>
    /\ i = 0
    /\ dg = EmptyGraph
    /\ pc = "outer"
    /\ CallsIdle /\ ChainIdle /\ FilterIdle /\ WalkIdle /\ AssignIdle

NextTree ==
    \/ OuterNext \/ InnerStep2 \/ InnerStep3 \/ InnerDone \/ FinalStep \/ FinalDone

SpecTree == InitTree /\ [][NextTree]_vars

----------------------------------------------------------------------------
\* create_high_degree_graph(graph, n) on a protein network: an undirected
\* networkx Graph, here its nodes and its edges, an edge being the set of its
\* one (a self-interaction) or two ends.  The function reads no attribute.

Proteins == 1..MaxProteins

PossibleEdges == {{u, v} : u, v \in Proteins}

\* The caller's graph is one object; a copy of it is another.
Graphs ==
    UNION {{[id |-> 1, nodes |-> ns, edges |-> es] :
               es \in SUBSET {e \in PossibleEdges : e \subseteq ns}} :
           ns \in SUBSET Proteins}

\* graph.degree(): the number of edges at the node, a self-loop counted twice.
Degree(g, v) ==
    Cardinality({e \in g.edges : v \in e /\ e # {v}})
        + (IF {v} \in g.edges THEN 2 ELSE 0)

\* remove_nodes_from(nodes): the nodes go, and every edge at one of them.
remove_nodes_from(g, vs) ==
    [g EXCEPT !.nodes = g.nodes \ vs, !.edges = {e \in g.edges : e \cap vs = {}}]

\* graph.copy(): a new graph object with the nodes and the edges of g
Graph_copy(g) == [g EXCEPT !.id = Fresh({g.id})]

\* What the name bound to `ref` refers to once the object `changed` has been
\* changed in place: the changed object, if it is the object of that name.
Seen(ref, changed) == IF ref.id = changed.id THEN changed ELSE ref

\* Filter_copy that binds filtered_graph to the caller's graph itself.
Filter_copy_NoCopy ==
    /\ fpc = "called"
    /\ filtered_graph' = graph
    /\ fpc' = "step1"
    /\ UNCHANGED <<graph, n_min, to_remove, notFilterVars>>

\* filtered_graph = graph.copy()
Filter_copy ==
    /\ fpc = "called"
    /\ filtered_graph' = Graph_copy(graph)
    /\ fpc' = "step1"
    /\ UNCHANGED <<graph, n_min, to_remove, notFilterVars>>

\* Step 1: the nodes whose degree in `graph` is below n
Filter_step1 ==
    /\ fpc = "step1"
    /\ to_remove' = {v \in graph.nodes : Degree(graph, v) < n_min}
    /\ filtered_graph' = remove_nodes_from(filtered_graph, to_remove')
    /\ graph' = Seen(graph, filtered_graph')
    /\ fpc' = "step2"
    /\ UNCHANGED <<n_min, notFilterVars>>

\* Step 2: the nodes left without an edge in filtered_graph
Filter_step2 ==
    /\ fpc = "step2"
    /\ to_remove' = {v \in filtered_graph.nodes : Degree(filtered_graph, v) < 1}
    /\ filtered_graph' = remove_nodes_from(filtered_graph, to_remove')
    /\ graph' = Seen(graph, filtered_graph')
    /\ fpc' = "return"
    /\ UNCHANGED <<n_min, notFilterVars>>

\* return filtered_graph
Filter_return ==
    /\ fpc = "return"
    /\ fpc' = "returned"
    /\ UNCHANGED <<graph, n_min, filtered_graph, to_remove, notFilterVars>>

InitFilter ==
    /\ graph \in Graphs
    /\ n_min \in 0..MaxN
    /\ filtered_graph = None
    /\ to_remove = {}
    /\ fpc = "called"
    /\ CallsIdle /\ ChainIdle /\ TreeIdle /\ WalkIdle /\ AssignIdle

NextFilter == Filter_copy \/ Filter_step1 \/ Filter_step2 \/ Filter_return

SpecFilter == InitFilter /\ [][NextFilter]_vars

----------------------------------------------------------------------------
\* The walk along e_sequence: the cells that copy the tree's graph into dg2
\* with other coordinates, and the cell that walks from the identity, drawing
\* every step into dg2

ESequences == UNION {[1..k -> 0..MaxRun] : k \in 0..MaxRuns}

\* A quotient times an integer: the pair of the value the float approximates.
Times(q, k) == IF IsException(q) THEN q ELSE [q EXCEPT !.num = @ * k]

\* The coordinates the copy gives a node: in the 2x2 cell the numerator and
\* the denominator of its fraction, in the 3x3 cell (r1 / r2) * r3 * 100 and
\* -r1 * (r2 / r3) * 100 of the sums r1, r2, r3 of its rows.
NewCoordinates(node) ==
    IF dim = 2
    THEN << <<"x", node["fraction"].items[1] * 50 - 900>>,
            <<"y", (0 - node["fraction"].items[2]) * 50 + 900>> >>
    ELSE LET m == node["elements"].items
             r1 == m[1] + m[2] + m[3]
             r2 == m[4] + m[5] + m[6]
             r3 == m[7] + m[8] + m[9]
         IN  << <<"x", Times(Times(Divide(r1, r2), r3), 100)>>,
                <<"y", Times(Times(Divide(r2, r3), 0 - r1), 100)>> >>

\* dg2 = dg.copy(); for node_id in dg2.nodes: node['x'] = ...; node['y'] = ...
Copy_dg2 ==
    /\ pc = "done" /\ wpc = "idle"
    /\ LET xy == [u \in DOMAIN dg.nodes |-> NewCoordinates(dg.nodes[u])]
           exc == IF dim = 2 THEN {}
                  ELSE {u \in DOMAIN dg.nodes :
                           IsException(xy[u][1][2]) \/ IsException(xy[u][2][2])}
       IN  IF exc # {}
           THEN /\ wpc' = "ZeroDivisionError"
                /\ dg2' = [dg EXCEPT !.nodes =
                              [u \in DOMAIN dg.nodes |->
                                  IF u \in exc THEN dg.nodes[u]
                                  ELSE (xy[u][2][1] :> xy[u][2][2])
                                       @@ (xy[u][1][1] :> xy[u][1][2]) @@ dg.nodes[u]]]
           ELSE /\ wpc' = "copied"
                /\ dg2' = [dg EXCEPT !.nodes =
                              [u \in DOMAIN dg.nodes |->
                                  (xy[u][2][1] :> xy[u][2][2])
                                  @@ (xy[u][1][1] :> xy[u][1][2]) @@ dg.nodes[u]]]
    /\ UNCHANGED <<e_sequence, M, operator, e_index, taken, stdout, treeVars,
                   callVars, chainVars, filterVars, assignVars, phase>>

WalkLive == TreeLive \cup IdsOf(M)

\* What change_or_add_edge writes on the node of a matrix before its hover
\* message, which may raise.
Payload(m) ==
    IF m.cls = "Matrix"
    THEN << <<"size", 18>>, <<"shape", "rectangle">>,
            <<"fraction", Matrix_fraction(m)>>, <<"elements", Matrix_elements(m)>> >>
    ELSE << <<"size", 18>>, <<"shape", "rectangle">>,
            <<"fraction1", Matrix3d_fraction1(m)>>,
            <<"fraction2", Matrix3d_fraction2(m)>>,
            <<"elements", Matrix3d_elements(m)>> >>

Hover(m) == IF m.cls = "Matrix" THEN to_hover_message(m) ELSE to_hover_message3d(m)

\* change_or_add_edge(graph, M1, M2, operator_name): the graph it leaves, and
\* the exception it raises if a hover message raises.
change_or_add_edge(g, M1, M2, operator_name) ==
    LET u == Label(M1)
        v == Label(M2)
        g1 == IF <<u, v>> \in DOMAIN g.edges THEN g ELSE add_edge(g, u, v)
        color == IF operator_name = "R" THEN "black" ELSE "red"
        g2 == SetEdgeAll(g1, u, v,
                  << <<"label", operator_name>>, <<"size", 10>>, <<"color", color>>,
                     <<"label_color", "green">>, <<"label_size", 20>> >>)
        g3 == SetNodeAll(g2, u, Payload(M1))
        g4 == SetNode(g3, u, "hover", Hover(M1))
        g5 == IF M1.id = M2.id
              THEN SetNodeAll(g4, u, << <<"color", color>>, <<"label_color", color>> >>)
              ELSE g4
        g6 == SetNodeAll(g5, v, Payload(M2))
        g7 == SetNode(g6, v, "hover", Hover(M2))
    IN  IF IsException(Hover(M1)) THEN [graph |-> g3, raised |-> Hover(M1)]
        ELSE IF IsException(Hover(M2)) THEN [graph |-> g6, raised |-> Hover(M2)]
        ELSE [graph |-> SetNodeAll(g7, v, << <<"color", color>>,
                                             <<"label_color", color>> >>),
              raised |-> None]

\* I = Matrix(1, 0, 0, 1); M = I; operator = R, before the loops; e_sequence is
\* the list the walk is given.
Walk_begin ==
    /\ wpc = "copied"
    /\ e_sequence' \in ESequences
    /\ M' = IF dim = 2 THEN Matrix_init(Fresh(TreeLive), 1, 0, 0, 1)
            ELSE Matrix3d_init(Fresh(TreeLive), 1, 0, 0, 0, 1, 0, 0, 0, 1)
    /\ operator' = IF dim = 2 THEN R ELSE "R"
    /\ e_index' = 0
    /\ taken' = 0
    /\ stdout' = <<>>
    /\ wpc' = "walk"
    /\ UNCHANGED <<dg2, notWalkVars>>

\* One turn of the inner loop: the step, its name printed, the edge drawn.
Walk_step ==
    /\ wpc = "walk" /\ e_index < Len(e_sequence)
    /\ taken < e_sequence[e_index + 1]
    /\ LET M_new == IF dim = 2 THEN Matrix_mul(M, operator, WalkLive).ret
                    ELSE IF operator = "R" THEN Matrix3d_rc(M, WalkLive).ret
                    ELSE Matrix3d_lc(M, WalkLive).ret
           op_name == IF dim = 2 THEN (IF operator.id = R.id THEN "R" ELSE "L")
                      ELSE operator
           drawn == change_or_add_edge(dg2, M, M_new, op_name)
       IN  /\ stdout' = Append(stdout, op_name)
           /\ dg2' = drawn.graph
           /\ IF IsException(drawn.raised)
              THEN wpc' = drawn.raised.cls /\ UNCHANGED <<M, taken>>
              ELSE wpc' = wpc /\ M' = M_new /\ taken' = taken + 1
    /\ UNCHANGED <<e_sequence, operator, e_index, notWalkVars>>

\* Walk_turn that goes on to the next element with the operator it has.
Walk_turn_NoAlternation ==
    /\ wpc = "walk" /\ e_index < Len(e_sequence)
    /\ taken = e_sequence[e_index + 1]
    /\ e_index' = e_index + 1
    /\ taken' = 0
    /\ UNCHANGED <<dg2, e_sequence, M, operator, stdout, wpc, notWalkVars>>

\* The end of the inner loop: operator = L if operator == R else R
Walk_turn ==
    /\ wpc = "walk" /\ e_index < Len(e_sequence)
    /\ taken = e_sequence[e_index + 1]
    /\ operator' = IF dim = 2
                   THEN (IF Matrix_eq(operator, R).ret.v THEN L ELSE R)
                   ELSE (IF operator = "R" THEN "L" ELSE "R")
    /\ e_index' = e_index + 1
    /\ taken' = 0
    /\ UNCHANGED <<dg2, e_sequence, M, stdout, wpc, notWalkVars>>

\* The closing print formats M's fractions and their decimals.
Walk_end ==
    /\ wpc = "walk" /\ e_index = Len(e_sequence)
    /\ wpc' = IF IsException(Hover(M)) THEN Hover(M).cls ELSE "done"
    /\ UNCHANGED <<dg2, e_sequence, M, operator, e_index, taken, stdout, notWalkVars>>

NextWalk == Copy_dg2 \/ Walk_begin \/ Walk_step \/ Walk_turn \/ Walk_end

NextTreeWalk == NextTree \/ NextWalk

InitWalk == InitTree /\ num_levels <= MaxWalkLevels

SpecWalk == InitWalk /\ [][NextTreeWalk]_vars

----------------------------------------------------------------------------
\* The tree cell with the body of the inner loop run for the items of a level
\* in any order, and the bodies of several items interleaved: an item's
\* children and edges (the body up to the hover messages) and the rest of its
\* body are two steps, and any item may take its next step at any time.  Every
\* item works with its own index in `sequence`: its children go to the places
\* the loop would append them at, its coordinates are those of its index.

Children(item, used) ==
    IF dim = 2 THEN Children2(item, used) ELSE Children3(item, used)

\* for level in range(1, num_levels), a level's items not started yet
Any_outer ==
    /\ pc = "outer"
    /\ IF level + 1 < num_levels
       THEN /\ level' = level + 1
            /\ new_sequence' = [x \in 1..(dim * Len(sequence)) |-> None]
            /\ phase' = [k \in 1..Len(sequence) |-> 0]
            /\ pc' = "inner"
       ELSE /\ pc' = "final"
            /\ UNCHANGED <<level, new_sequence, phase>>
    /\ UNCHANGED <<dim, num_levels, sequence, i, dg, callVars, chainVars,
                   filterVars, walkVars, assignVars>>

\* The ids of `used` and the next `count` ids.
RECURSIVE TakeFresh(_, _)
TakeFresh(used, count) ==
    IF count = 0 THEN used ELSE TakeFresh(used \cup {Fresh(used)}, count - 1)

\* The children of item k, appended, and the edges and their payload.  The
\* children are the objects the cell would make for item k in its turn.
Any_graph ==
    \E k \in 1..Len(sequence) :
        /\ pc = "inner" /\ phase[k] = 0
        /\ LET item == sequence[k]
               children == Children(item, TakeFresh(GlobalIds \cup IdsOfAll(sequence),
                                                    dim * (k - 1)))
           IN  /\ new_sequence' =
                     [x \in 1..Len(new_sequence) |->
                         IF (x - 1) \div dim = k - 1 THEN children[((x - 1) % dim) + 1]
                         ELSE new_sequence[x]]
               /\ dg' = IF dim = 2 THEN Graph2(dg, item, children[1], children[2])
                        ELSE Graph3(dg, item, children[1], children[2], children[3])
        /\ phase' = [phase EXCEPT ![k] = 1]
        /\ UNCHANGED <<dim, num_levels, level, sequence, i, pc, callVars, chainVars,
                       filterVars, walkVars, assignVars>>


\* Any_decorate that gives item k the index of the order it is finished in.
Any_decorate_CompletionOrder ==
    \E k \in 1..Len(sequence) :
        /\ pc = "inner" /\ phase[k] = 1
        /\ LET item == sequence[k]
               c == [d \in 1..dim |-> new_sequence[dim * (k - 1) + d]]
               exc == FirstException([d \in 1..(dim + 1) |->
                                         IF d = 1 THEN Hover(item) ELSE Hover(c[d - 1])])
               index == Cardinality({j \in 1..Len(sequence) : phase[j] = 2})
           IN  IF IsException(exc)
               THEN pc' = exc.cls /\ UNCHANGED <<dg, phase>>
               ELSE /\ dg' = IF dim = 2
                             THEN Decorate2(dg, item, c[1], c[2], index,
                                            Len(sequence), level)
                             ELSE Decorate3(dg, item, c[1], c[2], c[3], index,
                                            Len(sequence), level)
                    /\ phase' = [phase EXCEPT ![k] = 2]
                    /\ pc' = pc
        /\ UNCHANGED <<dim, num_levels, level, sequence, new_sequence, i, callVars,
                       chainVars, filterVars, walkVars, assignVars>>

\* The rest of the body of item k, whose index in `sequence` is k - 1
Any_decorate ==
    \E k \in 1..Len(sequence) :
        /\ pc = "inner" /\ phase[k] = 1
        /\ LET item == sequence[k]
               c == [d \in 1..dim |-> new_sequence[dim * (k - 1) + d]]
               exc == FirstException([d \in 1..(dim + 1) |->
                                         IF d = 1 THEN Hover(item) ELSE Hover(c[d - 1])])
           IN  IF IsException(exc)
               THEN pc' = exc.cls /\ UNCHANGED <<dg, phase>>
               ELSE /\ dg' = IF dim = 2
                             THEN Decorate2(dg, item, c[1], c[2], k - 1,
                                            Len(sequence), level)
                             ELSE Decorate3(dg, item, c[1], c[2], c[3], k - 1,
                                            Len(sequence), level)
                    /\ phase' = [phase EXCEPT ![k] = 2]
                    /\ pc' = pc
        /\ UNCHANGED <<dim, num_levels, level, sequence, new_sequence, i, callVars,
                       chainVars, filterVars, walkVars, assignVars>>

\* sequence = new_sequence, when every item's body has finished
Any_inner_done ==
    /\ pc = "inner"
    /\ \A k \in 1..Len(sequence) : phase[k] = 2
    /\ sequence' = new_sequence
    /\ phase' = <<>>
    /\ pc' = "outer"
    /\ UNCHANGED <<dim, num_levels, level, new_sequence, i, dg, callVars,
                   chainVars, filterVars, walkVars, assignVars>>

\* The levels the cell expands have at most MaxAnyItems items.
InitAnyOrder ==
    /\ InitTree
    /\ num_levels >= 3 => dim ^ (num_levels - 2) <= MaxAnyItems

NextAnyOrder ==
    \/ Any_outer
    \/ Any_graph \/ Any_decorate
    \/ Any_inner_done \/ FinalStep \/ FinalDone

SpecAnyOrder == InitAnyOrder /\ [][NextAnyOrder]_vars

\* The cell as it is written, item after item: the graph after the body of
\* the items from index k on, and the next frontier.
Body(g, item, k, length, lvl) ==
    LET c == Children(item, {})
    IN  IF dim = 2
        THEN Decorate2(Graph2(g, item, c[1], c[2]), item, c[1], c[2], k, length, lvl)
        ELSE Decorate3(Graph3(g, item, c[1], c[2], c[3]), item,
                       c[1], c[2], c[3], k, length, lvl)

\* The graph so far is a value before the next body changes it.
RECURSIVE LevelGraph(_, _, _, _)
LevelGraph(g, seq, k, lvl) ==
    IF k = Len(seq) \/ DOMAIN g # {"nodes", "edges"} THEN g
    ELSE LevelGraph(Body(g, seq[k + 1], k, Len(seq), lvl), seq, k + 1, lvl)

NextFrontier(seq) ==
    [x \in 1..(dim * Len(seq)) |->
        Children(seq[(x - 1) \div dim + 1], {})[((x - 1) % dim) + 1]]

\* One level: the graph after its items, and sequence = new_sequence.
Level(t, lvl) ==
    [dg |-> LevelGraph(t.dg, t.sequence, 0, lvl),
     sequence |-> NextFrontier(t.sequence)]

\* The graph and the frontier after the levels 1 .. lvl.
RECURSIVE TreeAfter(_)
TreeAfter(lvl) ==
    IF lvl = 0
    THEN [dg |-> EmptyGraph,
          sequence |-> <<IF dim = 2 THEN Matrix_init(0, 1, 0, 0, 1)
                         ELSE Matrix3d_init(0, 1, 0, 0, 0, 1, 0, 0, 0, 1)>>]
    ELSE Level(TreeAfter(lvl - 1), lvl)

\* The graph after the pass over the lowest level, from index k on.
RECURSIVE LowestLevel(_, _, _, _)
LowestLevel(g, seq, k, lvl) ==
    IF k = Len(seq) \/ DOMAIN g # {"nodes", "edges"} THEN g
    ELSE LowestLevel(SetNodeAll(g, Label(seq[k + 1]),
                        << <<"x", Coordinate(k, Len(seq), IF dim = 2 THEN 50 ELSE 100)>>,
                           <<"y", lvl * 50>> >>),
                     seq, k + 1, lvl)

----------------------------------------------------------------------------
\* assign_properties(g) of the igraph notebook

colors ==
    <<"red", "blue", "green", "orange", "pink", "brown", "yellow", "cyan",
      "magenta", "violet">>

\* list[k] raises IndexError unless -len(list) <= k < len(list)
InRange(list, k) == k >= 0 - Len(list) /\ k < Len(list)

\* list[k]: counted from 0, from the end for a negative k
Index(list, k) == IF k >= 0 THEN list[k + 1] ELSE list[Len(list) + k + 1]

\* The edge lists of the simple graphs on the vertices 0 .. n - 1, every edge
\* (i, j) with i < j, in the order of the pairs.
EdgeBefore(e, f) == e[1] < f[1] \/ (e[1] = f[1] /\ e[2] < f[2])

EdgeLists(n) ==
    LET pairs == {e \in (0..(n - 1)) \X (0..(n - 1)) : e[1] < e[2]}
    IN  {es \in UNION {[1..k -> pairs] : k \in 0..Cardinality(pairs)} :
            \A x \in 1..(Len(es) - 1) : EdgeBefore(es[x], es[x + 1])}

\* The community numbers the model draws: below, at and above len(colors).
CommunityNumbers == {0, 1, Len(colors), MaxCommunity}

\* colors[community_index % len(colors)]
NodeColor(community_index) == Index(colors, community_index % Len(colors))

\* EdgeColor that compares the colours of the two ends.
EdgeColor_SameColour(membership, e) ==
    IF NodeColor(membership[e[1] + 1]) = NodeColor(membership[e[2] + 1])
    THEN Index(colors, membership[e[1] + 1] % Len(colors))
    ELSE "black"

\* colors[communities[i] % len(colors)] if communities[i] == communities[j]
\* else 'black'
EdgeColor(membership, e) ==
    IF membership[e[1] + 1] = membership[e[2] + 1]
    THEN Index(colors, membership[e[1] + 1] % Len(colors))
    ELSE "black"

\* The centralities and the communities, as the library gives them.
Assign_compute ==
    /\ apc = "called"
    /\ \E c \in {0, MaxCentrality} :
          /\ node_centralities' = [v \in 1..g_graph.n |-> c]
          /\ edge_centralities' = [e \in 1..Len(g_graph.edgelist) |-> c]
    /\ communities' \in [1..g_graph.n -> CommunityNumbers]
    /\ apc' = "computed"
    /\ UNCHANGED <<g_graph, notAssignVars>>

\* g['node_border_size'], g['node_border_color'], g['edge_opacity']
Assign_graph ==
    /\ apc = "computed"
    /\ g_graph' = [g_graph EXCEPT !.attributes =
                      ("edge_opacity" :> Divide(75, 100))
                      @@ ("node_border_color" :> "black")
                      @@ ("node_border_size" :> Divide(15, 10))
                      @@ g_graph.attributes]
    /\ apc' = "graph"
    /\ UNCHANGED <<node_centralities, edge_centralities, communities, notAssignVars>>

\* g.vs['size'], g.vs['color']
Assign_nodes ==
    /\ apc = "graph"
    /\ LET size == [v \in 1..g_graph.n |->
                       Divide(10 * 50 + node_centralities[v], 50)]
           color == [v \in 1..g_graph.n |-> NodeColor(communities[v])]
       IN  IF \E v \in 1..g_graph.n :
                 ~InRange(colors, communities[v] % Len(colors))
           THEN /\ apc' = "IndexError"
                /\ g_graph' = [g_graph EXCEPT !.vs = ("size" :> size) @@ g_graph.vs]
           ELSE /\ apc' = "nodes"
                /\ g_graph' = [g_graph EXCEPT !.vs =
                                  ("color" :> color) @@ ("size" :> size) @@ g_graph.vs]
    /\ UNCHANGED <<node_centralities, edge_centralities, communities, notAssignVars>>

\* g.es['size'], g.es['color']
Assign_edges ==
    /\ apc = "nodes"
    /\ LET size == [e \in 1..Len(g_graph.edgelist) |->
                       Divide(50 + edge_centralities[e], 100)]
           color == [e \in 1..Len(g_graph.edgelist) |->
                        EdgeColor(communities, g_graph.edgelist[e])]
       IN  IF \E e \in 1..Len(g_graph.edgelist) :
                 ~InRange(colors, communities[g_graph.edgelist[e][1] + 1] % Len(colors))
           THEN /\ apc' = "IndexError"
                /\ g_graph' = [g_graph EXCEPT !.es = ("size" :> size) @@ g_graph.es]
           ELSE /\ apc' = "returned"
                /\ g_graph' = [g_graph EXCEPT !.es =
                                  ("color" :> color) @@ ("size" :> size) @@ g_graph.es]
    /\ UNCHANGED <<node_centralities, edge_centralities, communities, notAssignVars>>

\* assign_properties(g) is called with a graph that has no attributes yet.
InitAssign ==
    /\ \E n \in 0..MaxVertices :
          \E es \in EdgeLists(n) :
              g_graph = [cls |-> "Graph", n |-> n, edgelist |-> es,
                         attributes |-> <<>>, vs |-> <<>>, es |-> <<>>]
    /\ node_centralities = <<>> /\ edge_centralities = <<>> /\ communities = <<>>
    /\ apc = "called"
    /\ CallsIdle /\ ChainIdle /\ TreeIdle /\ FilterIdle /\ WalkIdle

NextAssign == Assign_compute \/ Assign_graph \/ Assign_nodes \/ Assign_edges

SpecAssign == InitAssign /\ [][NextAssign]_vars

----------------------------------------------------------------------------
\* Properties

\* A matrix's elements read from its fields, row by row, and its size.
Fields(m) ==
    CASE m.cls = "Matrix" -> <<m.a, m.b, m.c, m.d>>
      [] m.cls = "Matrix3d" -> <<m.a, m.b, m.c, m.d, m.e, m.f, m.g, m.h, m.i>>
      [] m.cls = "MatrixGeneral" -> m.element_list.items

Size(m) ==
    CASE m.cls = "Matrix" -> 2
      [] m.cls = "Matrix3d" -> 3
      [] m.cls = "MatrixGeneral" -> m.n

At(m, r, c) == Fields(m)[r * Size(m) + c + 1]

RECURSIVE SumSeq(_)
SumSeq(xs) == IF xs = <<>> THEN 0 ELSE Head(xs) + SumSeq(Tail(xs))

RowSum(m, r) == SumSeq(SubSeq(Fields(m), r * Size(m) + 1, (r + 1) * Size(m)))

IsIdentity(m) ==
    /\ IsMatrix(m)
    /\ \A r, c \in 0..(Size(m) - 1) : At(m, r, c) = IF r = c THEN 1 ELSE 0

\* The child `child` of `m` is m with column `col` of every row replaced by the
\* row's sum.
IsChildInto(child, m, col) ==
    /\ IsMatrix(child)
    /\ child.cls = m.cls
    /\ Size(child) = Size(m)
    /\ Len(Fields(child)) = Len(Fields(m))
    /\ \A r, c \in 0..(Size(m) - 1) :
         At(child, r, c) = IF c = col THEN RowSum(m, r) ELSE At(m, r, c)

\* C1: from any 2x2 matrix (the identity among them), the product with a
\* sequence of operators L and R equals, by __eq__, the same sequence of lc and rc;
\* with one operator, M * L == M.lc and M * R == M.rc.
C1_ProductEqualsChildren ==
    root.cls = "Matrix" => (IsMatrix(prod) /\ Matrix_eq(prod, chain).ret.v)

\* I * L * L * R * L * R and I.lc.lc.rc.lc.rc, the cell's example.
C1_Witness ==
    /\ IsIdentity(root) /\ root.cls = "Matrix"
    /\ path = <<"L", "L", "R", "L", "R">>
    /\ Fields(prod) = <<2, 3, 5, 8>>

\* C2: lc of a matrix of any of the three classes has, in every row, column 0
\* equal to the sum of the row and every other column unchanged.
C2_LeftChild == op = "lc" => IsChildInto(ret, pre.self, 0)

C2_Witness ==
    /\ op = "lc" /\ self.cls = "MatrixGeneral" /\ self.n = 3
    /\ \A r \in 0..2 : At(ret, r, 0) # At(pre.self, r, 0)

\* C3: rc of a matrix of any of the three classes has, in every row, the last
\* column equal to the sum of the row and every other column unchanged.
C3_RightChild == op = "rc" => IsChildInto(ret, pre.self, Size(pre.self) - 1)

C3_Witness ==
    /\ op = "rc" /\ self.cls = "MatrixGeneral" /\ self.n = 3
    /\ \A r \in 0..2 : At(ret, r, 2) # At(pre.self, r, 2)

\* C4: mc of a 3x3 matrix has, in every row, column 1 equal to the sum of the
\* row and columns 0 and 2 unchanged.
C4_MiddleChild == op = "mc" => (pre.self.cls = "Matrix3d" /\ IsChildInto(ret, pre.self, 1))

C4_Witness ==
    /\ op = "mc"
    /\ \A r \in 0..2 : At(ret, r, 1) # At(pre.self, r, 1)
    /\ RowSum(pre.self, 0) # RowSum(pre.self, 1)

\* C5: a fraction is the pair of the sums of two adjacent rows of the matrix as
\* it is: rows 0 and 1 for fraction and fraction1, rows 1 and 2 for fraction2;
\* the 2x2 identity's fraction is (1, 1).
C5_Fraction ==
    /\ op = "fraction" => ret = Tuple(<<RowSum(self, 0), RowSum(self, 1)>>)
    /\ op = "fraction1" => ret = Tuple(<<RowSum(self, 0), RowSum(self, 1)>>)
    /\ op = "fraction2" => ret = Tuple(<<RowSum(self, 1), RowSum(self, 2)>>)
    /\ (op = "fraction" /\ IsIdentity(self)) => ret = Tuple(<<1, 1>>)

C5_Witness ==
    /\ op = "fraction2"
    /\ RowSum(self, 0) # RowSum(self, 1)
    /\ RowSum(self, 1) # RowSum(self, 2)
    /\ RowSum(self, 0) # RowSum(self, 2)

\* C6: the left child of the 2x2 identity is [[1,0],[1,1]], the right child of
\* that is [[1,1],[1,2]], and its fraction is (2, 3).
C6_Example ==
    (root.cls = "Matrix" /\ IsIdentity(root)) =>
        /\ path = <<"L">> => Fields(chain) = <<1, 0, 1, 1>>
        /\ path = <<"L", "R">> =>
             /\ Fields(chain) = <<1, 1, 1, 2>>
             /\ Matrix_fraction(chain) = Tuple(<<2, 3>>)

C6_Witness ==
    /\ root.cls = "Matrix" /\ IsIdentity(root)
    /\ path = <<"L", "R">>
    /\ Matrix_fraction(chain) = Tuple(<<2, 3>>)

\* The expansion loop is over.
Expanded == pc \in {"final", "done", "KeyError", "NameError"}

Max(x, y) == IF x >= y THEN x ELSE y

\* C7, as claimed: the construction performs num_levels expansions, and the
\* final sequence holds 2^num_levels (3^num_levels) matrices.
C7_Claimed == pc = "done" => (level = num_levels /\ Len(sequence) = dim ^ num_levels)

\* C7, amended: the construction performs max(num_levels - 1, 0) expansions, and
\* the final sequence holds 2 (3) to that power matrices.
C7_FrontierSize ==
    Expanded => /\ level = Max(num_levels - 1, 0)
                /\ Len(sequence) = dim ^ Max(num_levels - 1, 0)

C7_Witness ==
    /\ pc = "done" /\ dim = 3 /\ num_levels = 3
    /\ level = 2 /\ Len(sequence) = 9

\* C8: a matrix reached from an identity by lc, rc (and mc, for 3x3) has no
\* negative element.
C8_NonNegative ==
    IsIdentity(root) => \A k \in 1..Len(Fields(chain)) : Fields(chain)[k] >= 0

C8_Witness ==
    /\ IsIdentity(root) /\ root.cls = "Matrix3d"
    /\ path = <<"R", "M", "L", "R">>
    /\ \E k \in 1..9 : Fields(chain)[k] > 5

\* The calls of the matrix classes that C9 is about.
Methods == {"lc", "rc", "mc", "mul", "eq", "elements", "fraction", "fraction1", "fraction2"}

\* C9: a call leaves the receiver and the operand as they were; lc, rc, mc and
\* the product return a matrix that is a new object; the same call made again
\* returns an equal value.
C9_NoMutation ==
    op \in Methods =>
        /\ self = pre.self
        /\ other.cls = pre.other.cls
        /\ IsMatrix(other) => other = pre.other
        /\ op \in {"lc", "rc", "mc", "mul"} =>
             /\ IsMatrix(ret)
             /\ ret.id \notin IdsOf(pre.self) \cup IdsOf(pre.other) \cup GlobalIds
        /\ prev.cls # "NoneType" => ValueOf(ret) = prev

\* lc called twice on a MatrixGeneral, which holds a list.
C9_Witness ==
    /\ op = "lc" /\ self.cls = "MatrixGeneral" /\ self.n = 2
    /\ prev.cls = "tuple"
    /\ Fields(ret) # Fields(self)

\* C10, as claimed: constructing a MatrixGeneral from a list whose length is no
\* square raises ValueError and binds no matrix; from a list of n * n elements
\* it returns a matrix of size n.
C10_Claimed ==
    op = "MatrixGeneral" =>
        IF \E n \in 0..Len(pre.other.items) : n * n = Len(pre.other.items)
        THEN /\ ret.cls = "MatrixGeneral"
             /\ ret.n * ret.n = Len(pre.other.items)
             /\ self = ret
        ELSE /\ ret.cls = "ValueError"
             /\ self.cls = "NoneType"

\* C11: lc and rc of a constructed matrix of any class, and mc of a 3x3 one,
\* raise nothing and return a matrix of the receiver's class and size.
C11_ChildrenNeverFail ==
    op \in {"lc", "rc", "mc"} =>
        /\ ~IsException(ret)
        /\ IsMatrix(ret)
        /\ ret.cls = pre.self.cls
        /\ Size(ret) = Size(pre.self)
        /\ Len(Fields(ret)) = Size(pre.self) * Size(pre.self)

\* lc of a 2x2 matrix with negative elements.
C11_Witness ==
    /\ op = "lc" /\ pre.self.cls = "Matrix"
    /\ pre.self.a < 0 /\ pre.self.d < 0
    /\ IsMatrix(ret)

\* Every row of m already holds its sum in its first and in its last column, so
\* that neither child changes it.
RowsHoldTheirSums(m) ==
    \A r \in 0..(Size(m) - 1) :
        At(m, r, 0) = RowSum(m, r) /\ At(m, r, Size(m) - 1) = RowSum(m, r)

\* All elements of column c of m are equal.
ColumnConstant(m, c) ==
    \A r1, r2 \in 0..(Size(m) - 1) : At(m, r1, c) = At(m, r2, c)

\* The column lc modifies, or the one rc modifies, has all its elements equal.
Degenerate(m) == ColumnConstant(m, 0) \/ ColumnConstant(m, Size(m) - 1)

\* C12, amended: lc(M) != rc(M) exactly when some row of M has a first or a last
\* element that is not the row's sum; in particular lc(M) != rc(M) for every
\* matrix reached by child operations from an identity of size 2 or more.
C12_ChildrenDiffer ==
    differ.cls = "bool" =>
        /\ differ.v <=> ~RowsHoldTheirSums(chain)
        /\ (IsIdentity(root) /\ Size(root) >= 2) => differ.v

\* The children of a matrix five operators below the 3x3 identity differ.
C12_Witness ==
    /\ differ.cls = "bool" /\ differ.v
    /\ root = I3d /\ Len(path) = 5 /\ path[5] = "M"

\* C12, as claimed: lc(M) != rc(M) whenever M is not degenerate (the modified
\* column has all its elements equal), and for every matrix reached by child
\* operations from an identity.
C12_Claimed ==
    differ.cls = "bool" =>
        /\ ~Degenerate(chain) => differ.v
        /\ IsIdentity(root) => differ.v

\* C13: M == N is True exactly when M and N, of one class, hold the same
\* elements at the same positions, whether or not they are the same object; two
\* identities constructed separately are equal.
C13_EqualityByValue ==
    (op = "eq" /\ pre.self.cls = pre.other.cls) =>
        /\ ret.cls = "bool"
        /\ ret.v <=> Fields(pre.self) = Fields(pre.other)
        /\ (/\ IsIdentity(pre.self) /\ IsIdentity(pre.other)
            /\ Size(pre.self) = Size(pre.other)) => ret.v

\* A 3x3 identity constructed in the session equals the notebook's I.
C13_Witness ==
    /\ op = "eq" /\ ret.cls = "bool" /\ ret.v
    /\ pre.self.cls = "Matrix3d" /\ IsIdentity(pre.self)
    /\ pre.other = I3d /\ pre.other.id # pre.self.id

\* The elements fs of a matrix of size n, with column col of every row replaced
\* by the row's sum.
ChildFields(fs, n, col) ==
    [x \in 1..(n * n) |->
        IF (x - 1) % n = col
        THEN SumSeq(SubSeq(fs, ((x - 1) \div n) * n + 1, ((x - 1) \div n + 1) * n))
        ELSE fs[x]]

\* The elements of the matrix the path from the identity of size n leads to,
\* when the path is the k digits of j in base n, the first digit first: digit 0
\* is the left child, digit n - 1 the right one, digit 1 of 3 the middle one.
RECURSIVE NodeAt(_, _, _)
NodeAt(n, k, j) ==
    IF k = 0
    THEN [x \in 1..(n * n) |-> IF (x - 1) \div n = (x - 1) % n THEN 1 ELSE 0]
    ELSE ChildFields(NodeAt(n, k - 1, j \div n), n, j % n)

\* ms is the first `count` matrices of the frontier at depth k, in order.
IsFrontier(ms, k, count) ==
    /\ Len(ms) = count
    /\ \A j \in 0..(count - 1) :
         /\ ms[j + 1].cls = (IF dim = 2 THEN "Matrix" ELSE "Matrix3d")
         /\ Fields(ms[j + 1]) = NodeAt(dim, k, j)

\* C14: the tree is built breadth-first with the children of an item appended
\* left to right: the frontier at depth k holds, at index j, the matrix whose
\* path from the root is the k digits of j in base 2 (3 in the 3x3 cell), and
\* while a level is expanded the next frontier holds the children of the items
\* processed so far, in the items' order.
C14_BreadthFirst ==
    /\ pc \in {"outer", "done", "KeyError", "NameError"} =>
          IsFrontier(sequence, level, dim ^ level)
    /\ pc = "inner" =>
          /\ Len(new_sequence) = dim * i
          /\ \A j \in 0..(dim * i - 1) :
               /\ new_sequence[j + 1].cls = sequence[j \div dim + 1].cls
               /\ Fields(new_sequence[j + 1])
                     = ChildFields(Fields(sequence[j \div dim + 1]), dim, j % dim)

\* Index 5 of the 3x3 frontier at depth 2 is I.mc.rc: 5 is 12 in base 3.
C14_Witness ==
    /\ pc = "done" /\ dim = 3 /\ level = 2
    /\ Fields(sequence[6]) = <<1, 1, 2, 0, 1, 1, 0, 1, 2>>

\* The label the cell gives the matrix whose elements are fs.
LabelOf(fs) ==
    IF Len(fs) = 4
    THEN Label(Matrix_init(0, fs[1], fs[2], fs[3], fs[4]))
    ELSE Label(Matrix3d_init(0, fs[1], fs[2], fs[3], fs[4], fs[5],
                                fs[6], fs[7], fs[8], fs[9]))

\* The node labelled for the matrix with elements fs carries these elements.
HasElements(g, fs) ==
    /\ LabelOf(fs) \in DOMAIN g.nodes
    /\ "elements" \in DOMAIN g.nodes[LabelOf(fs)]
    /\ g.nodes[LabelOf(fs)]["elements"] = Tuple(fs)

\* The edge from the matrix with elements fs to its child number d is in the
\* graph and carries the child's letter.
HasEdge(g, fs, d) ==
    LET e == <<LabelOf(fs), LabelOf(ChildFields(fs, dim, d))>>
    IN  /\ e \in DOMAIN g.edges
        /\ "label" \in DOMAIN g.edges[e]
        /\ g.edges[e]["label"] = (IF d = 0 THEN "L" ELSE IF d = dim - 1 THEN "R" ELSE "M")

\* C16: when the cell has run, every matrix it expanded has an edge to each of
\* its children, labelled L to the left child, R to the right one and M to the
\* middle one, and the node of every matrix, expanded or on the final frontier,
\* carries that matrix's elements.
C16_GraphOfTheTree ==
    pc = "done" =>
        /\ \A k \in 0..(level - 1) : \A j \in 0..(dim ^ k - 1) :
             \A d \in 0..(dim - 1) : HasEdge(dg, NodeAt(dim, k, j), d)
        /\ \A k \in 0..level : \A j \in 0..(dim ^ k - 1) :
             HasElements(dg, NodeAt(dim, k, j))

\* The 2x2 tree of four levels has the edge 1/2 -> 2/3 labelled R.
C16_Witness ==
    /\ pc = "done" /\ dim = 2 /\ num_levels = 4
    /\ <<Str(1) \o <<"/">> \o Str(2), Str(2) \o <<"/">> \o Str(3)>> \in DOMAIN dg.edges
    /\ dg.edges[<<Str(1) \o <<"/">> \o Str(2), Str(2) \o <<"/">> \o Str(3)>>]["label"] = "R"

\* C17, as claimed: run with num_levels >= 1, the tree construction cell, its
\* final pass over the lowest level included, raises nothing, and expands no
\* level beyond num_levels.
C17_Claimed ==
    (pc # "idle" /\ num_levels >= 1) =>
        /\ pc \notin {"KeyError", "NameError", "ZeroDivisionError", "TypeError"}
        /\ level <= num_levels

\* C18, as claimed: M + N, for M and N of one class and size, returns a new
\* matrix of that class whose elements are the sums of the operands' elements,
\* position by position.
C18_Claimed ==
    (op = "add" /\ pre.self.cls = pre.other.cls
                /\ Size(pre.self) = Size(pre.other)) =>
        /\ IsMatrix(ret)
        /\ ret.cls = pre.self.cls
        /\ ret.id \notin IdsOf(pre.self) \cup IdsOf(pre.other)
        /\ Len(Fields(ret)) = Len(Fields(pre.self))
        /\ \A x \in 1..Len(Fields(ret)) :
             Fields(ret)[x] = Fields(pre.self)[x] + Fields(pre.other)[x]

\* The proteins other than v that v interacts with in g.
OtherNeighbours(g, v) == {u \in g.nodes \ {v} : {u, v} \in g.edges}

\* C19, as claimed: every node of the graph create_high_degree_graph(graph, n)
\* returns interacts with at least n other proteins in the input graph, whatever
\* the graph (self-interactions included) and n >= 0.
C19_Claimed ==
    fpc = "returned" =>
        \A v \in filtered_graph.nodes :
            Cardinality(OtherNeighbours(graph, v)) >= n_min

\* The names of the steps of a walk along the runs es, the first of which is
\* run number j: R for an even j, L for an odd one.
RECURSIVE Runs(_, _)
Runs(es, j) ==
    IF es = <<>> THEN <<>>
    ELSE [x \in 1..Head(es) |-> IF j % 2 = 0 THEN "R" ELSE "L"] \o Runs(Tail(es), j + 1)

\* The elements of the matrix that the steps `names` lead to from the identity.
RECURSIVE PathFields(_)
PathFields(names) ==
    IF names = <<>> THEN NodeAt(dim, 0, 0)
    ELSE ChildFields(PathFields(SubSeq(names, 1, Len(names) - 1)), dim,
                     IF names[Len(names)] = "R" THEN dim - 1 ELSE 0)

\* The edge of step number p of the walk is in g, styled as the walk styles it.
HasWalkEdge(g, names, p) ==
    LET e == <<LabelOf(PathFields(SubSeq(names, 1, p - 1))),
               LabelOf(PathFields(SubSeq(names, 1, p)))>>
    IN  /\ e \in DOMAIN g.edges
        /\ {"label", "size", "color", "label_color", "label_size"}
              \subseteq DOMAIN g.edges[e]
        /\ g.edges[e]["label"] = names[p]
        /\ g.edges[e]["size"] = 10
        /\ g.edges[e]["color"] = (IF names[p] = "R" THEN "black" ELSE "red")
        /\ g.edges[e]["label_color"] = "green"
        /\ g.edges[e]["label_size"] = 20

\* C20: the walk takes, for element number j of e_sequence (from 0), exactly
\* that many steps, R steps for an even j and L steps for an odd one, so it
\* starts with R; every step goes from M to its right or left child, so M is
\* the node of the tree at the end of the path of the steps taken, and at the end
\* the path has sum(e_sequence) steps; every step taken has its edge in dg2,
\* styled by the walk, and dg2 has the tree's edges and the walk's, no other
\* and none less.
C20_EulerWalk ==
    wpc \notin {"idle", "copied"} =>
        /\ wpc \in {"walk", "done"}
        /\ stdout = Runs(SubSeq(e_sequence, 1, e_index) \o <<taken>>, 0)
        /\ M.cls = (IF dim = 2 THEN "Matrix" ELSE "Matrix3d")
        /\ Fields(M) = PathFields(stdout)
        /\ wpc = "done" => Len(stdout) = SumSeq(e_sequence)
        /\ \A p \in 1..Len(stdout) : HasWalkEdge(dg2, stdout, p)
        /\ DOMAIN dg2.edges = DOMAIN dg.edges \cup
              {<<LabelOf(PathFields(SubSeq(stdout, 1, p - 1))),
                 LabelOf(PathFields(SubSeq(stdout, 1, p)))>> : p \in 1..Len(stdout)}
        /\ DOMAIN dg.nodes \subseteq DOMAIN dg2.nodes

\* The 2x2 walk along 2, 1, 2, the start of the notebook's e_sequence: RRLRR,
\* which ends at 11/4, three steps below the tree it started in.
C20_Witness ==
    /\ wpc = "done" /\ dim = 2 /\ num_levels = 3
    /\ e_sequence = <<2, 1, 2>>
    /\ stdout = <<"R", "R", "L", "R", "R">>
    /\ Matrix_fraction(M).items = <<11, 4>>

\* The elements of the matrices of ms.
FieldsOfAll(ms) == [x \in 1..Len(ms) |-> Fields(ms[x])]

\* C15: with the items of a level processed in any order, and their bodies
\* interleaved, every item keeping its index, the children made for the next
\* level and the graph (nodes, edges, labels and the payload of every node) are
\* those the cell makes item after item: after every level, and at the end.
C15_AnyOrder ==
    /\ pc = "inner" =>
          \A x \in 1..Len(new_sequence) :
              IsMatrix(new_sequence[x]) =>
                  Fields(new_sequence[x]) = Fields(NextFrontier(sequence)[x])
    /\ (pc = "outer" /\ level > 0) =>
          LET t == TreeAfter(level)
          IN  dg = t.dg /\ FieldsOfAll(sequence) = FieldsOfAll(t.sequence)
    /\ pc = "done" =>
          LET t == TreeAfter(level)
          IN  dg = LowestLevel(t.dg, t.sequence, 0, level)

\* The last of four items is finished before the first is started, the second
\* is in the middle of its body.
C15_Witness ==
    /\ pc = "inner" /\ dim = 2 /\ Len(sequence) = 4
    /\ phase = <<0, 1, 2, 2>>
    /\ IsMatrix(new_sequence[8]) /\ ~IsMatrix(new_sequence[1])

----------------------------------------------------------------------------
\* C21: when assign_properties has returned, every vertex has the colour of its
\* community number modulo 10, every edge the colour of its ends' community
\* when they are in one community and 'black' otherwise, and no lookup in the
\* list of 10 colours has been out of its bounds.
C21_CommunityColours ==
    /\ Len(colors) = 10
    /\ apc # "IndexError"
    /\ apc \in {"nodes", "returned"} =>
          \A v \in 1..g_graph.n :
              /\ communities[v] % 10 \in 0..9
              /\ g_graph.vs["color"][v] = colors[(communities[v] % 10) + 1]
    /\ apc = "returned" =>
          \A e \in 1..Len(g_graph.edgelist) :
              LET ci == communities[g_graph.edgelist[e][1] + 1]
                  cj == communities[g_graph.edgelist[e][2] + 1]
              IN  g_graph.es["color"][e] =
                      (IF ci = cj THEN colors[(ci % 10) + 1] ELSE "black")

\* An edge within community 10, and one between the communities 0 and 10, whose
\* vertices have one colour.
C21_Witness ==
    /\ apc = "returned" /\ g_graph.n = 3
    /\ communities = <<0, 10, 10>>
    /\ g_graph.edgelist = << <<0, 1>>, <<1, 2>> >>
    /\ g_graph.vs["color"] = <<"red", "red", "red">>
    /\ g_graph.es["color"] = <<"black", "red">>

----------------------------------------------------------------------------
\* The determinants, and the greatest common divisor of two integers.
Det2(m) == m.a * m.d - m.b * m.c

Det3(m) ==
    m.a * (m.e * m.i - m.f * m.h) - m.b * (m.d * m.i - m.f * m.g)
        + m.c * (m.d * m.h - m.e * m.g)

Abs(x) == IF x < 0 THEN 0 - x ELSE x

RECURSIVE Gcd(_, _)
Gcd(x, y) == IF y = 0 THEN Abs(x) ELSE Gcd(y, Abs(x) % Abs(y))

\* C22: a matrix reached from the identity by lc / rc (2x2) or lc / mc / rc
\* (3x3) has determinant 1, and the fraction of a 2x2 one is in lowest terms.
C22_Unimodular ==
    /\ root = I =>
          /\ Det2(chain) = 1
          /\ Gcd(Matrix_numerator(chain), Matrix_denominator(chain)) = 1
    /\ root = I3d => Det3(chain) = 1

\* I.lc.rc.rc = (1 2 / 1 3), with the fraction 3/4
C22_Witness ==
    /\ root = I /\ path = <<"L", "R", "R">>
    /\ Fields(chain) = <<1, 2, 1, 3>>
    /\ Matrix_fraction(chain) = Tuple(<<3, 4>>)

----------------------------------------------------------------------------
\* The labels of the matrices at depth k, and of the matrices down to depth k.
LabelsAt(k) == {LabelOf(NodeAt(dim, k, j)) : j \in 0..(dim ^ k - 1)}

LabelsTo(k) == UNION {LabelsAt(d) : d \in 0..k}

\* The parent-child pairs down to depth k, as pairs of labels.
ParentChildTo(k) ==
    {<<LabelOf(NodeAt(dim, d - 1, j \div dim)), LabelOf(NodeAt(dim, d, j))>> :
        <<d, j>> \in {dj \in (1..k) \X (0..(dim ^ k - 1)) : dj[2] < dim ^ dj[1]}}

\* 1 + dim + ... + dim ^ k
RECURSIVE Geometric(_, _)
Geometric(n, k) == IF k = 0 THEN 1 ELSE n ^ k + Geometric(n, k - 1)

\* C23: no two matrices of the tree share a label, so after every level, and at
\* the end, the graph has one node per matrix generated so far (2^d or 3^d of
\* them at depth d) and one edge per parent and child, and is a tree.
C23_OneNodePerMatrix ==
    ((pc = "outer" /\ level >= 1) \/ pc = "done") =>
        /\ \A d \in 0..level : Cardinality(LabelsAt(d)) = dim ^ d
        /\ Cardinality(LabelsTo(level)) = Geometric(dim, level)
        /\ DOMAIN dg.nodes = LabelsTo(level)
        /\ DOMAIN dg.edges = ParentChildTo(level)
        /\ Cardinality(DOMAIN dg.edges) = Cardinality(DOMAIN dg.nodes) - 1

\* The 3x3 tree of num_levels = 4: 1 + 3 + 9 + 27 nodes
C23_Witness ==
    /\ pc = "done" /\ dim = 3 /\ level = 3
    /\ Cardinality(DOMAIN dg.nodes) = 40
    /\ Cardinality(DOMAIN dg.edges) = 39

----------------------------------------------------------------------------
\* The fraction of m is smaller than the fraction of o, as rational numbers
\* with positive denominators.
FractionLess(m, o) ==
    Matrix_fraction(m).items[1] * Matrix_fraction(o).items[2]
        < Matrix_fraction(o).items[1] * Matrix_fraction(m).items[2]

Increasing(ms) == \A x \in 1..(Len(ms) - 1) : FractionLess(ms[x], ms[x + 1])

\* C24: in the 2x2 tree the fractions of every frontier increase strictly from
\* left to right, and the left child's fraction is smaller, the right child's
\* greater, than the fraction of the matrix they are children of.
C24_FractionsIncrease ==
    (dim = 2 /\ pc \in {"outer", "inner", "final", "done"}) =>
        /\ Increasing(sequence)
        /\ pc = "inner" =>
              /\ Increasing(new_sequence)
              /\ \A k \in 1..i :
                    /\ FractionLess(new_sequence[2 * k - 1], sequence[k])
                    /\ FractionLess(sequence[k], new_sequence[2 * k])
        /\ \A k \in 1..Len(sequence) :
              /\ FractionLess(Matrix_lc(sequence[k], {}).ret, sequence[k])
              /\ FractionLess(sequence[k], Matrix_rc(sequence[k], {}).ret)

\* The frontier at depth 2: 1/3, 2/3, 3/2, 3/1
C24_Witness ==
    /\ dim = 2 /\ pc = "done" /\ level = 2
    /\ [x \in 1..4 |-> Matrix_fraction(sequence[x]).items]
          = << <<1, 3>>, <<2, 3>>, <<3, 2>>, <<3, 1>> >>

----------------------------------------------------------------------------
\* MatrixGeneral(list of the elements of m)
General(m) == MatrixGeneral_init(2, List(1, Fields(m)))

\* The MatrixGeneral the operators of p lead to from m: m.lc for "L", m.rc for "R".
RECURSIVE GeneralAlong(_, _)
GeneralAlong(m, p) ==
    IF p = <<>> THEN m
    ELSE CHOOSE last \in
             {GeneralAlong(child, Tail(p)) :
                 child \in {IF Head(p) = "L" THEN MatrixGeneral_lc(m, IdsOf(m)).ret
                            ELSE MatrixGeneral_rc(m, IdsOf(m)).ret}} : TRUE

\* C25: the lc and the rc of a MatrixGeneral made of the elements of a Matrix or
\* a Matrix3d have the elements, in their order, of the lc and the rc of that
\* matrix, at the root of a chain and at every matrix a sequence of lc / rc
\* leads to; so the two chains keep the same elements step after step.
C25_GeneralAgrees ==
    (root.cls \in {"Matrix", "Matrix3d"} /\ \A x \in 1..Len(path) : path[x] # "M") =>
        \A m \in {General(chain)} :
            /\ Fields(MatrixGeneral_lc(m, {}).ret) = Fields(lc(chain, {}).ret)
            /\ Fields(MatrixGeneral_rc(m, {}).ret) = Fields(rc(chain, {}).ret)

\* I3d.lc.rc, and the same operators on MatrixGeneral([1,0,0,0,1,0,0,0,1])
C25_Witness ==
    /\ root = I3d /\ path = <<"L", "R">>
    /\ Fields(chain) = <<1, 0, 1, 1, 1, 2, 1, 0, 2>>
    /\ \A m \in {General(root)} :
          GeneralAlong(m, path).element_list.items = Fields(chain)

----------------------------------------------------------------------------
\* The matrices the tree cell and the walk hold.
TreeAndWalkNodes ==
    {sequence[x] : x \in 1..Len(sequence)}
        \cup {new_sequence[x] : x \in 1..Len(new_sequence)}
        \cup (IF IsMatrix(M) THEN {M} ELSE {})

\* Every row sum of m is at least 1 and the decimals of m are numbers.
RowSumsPositive(m) ==
    IF m.cls = "Matrix"
    THEN /\ Matrix_numerator(m) >= 1 /\ Matrix_denominator(m) >= 1
         /\ m.a + m.b >= 1 /\ m.c + m.d >= 1
         /\ Matrix_decimal(m).cls = "float"
    ELSE /\ Matrix3d_numerator1(m) >= 1 /\ Matrix3d_denominator1(m) >= 1
         /\ Matrix3d_numerator2(m) >= 1 /\ Matrix3d_denominator2(m) >= 1
         /\ m.a + m.b + m.c >= 1 /\ m.d + m.e + m.f >= 1 /\ m.g + m.h + m.i >= 1
         /\ Matrix3d_decimal1(m).cls = "float"
         /\ Matrix3d_decimal2(m).cls = "float"

\* C26: every matrix of the tree and of the walk, and every child of one, has
\* row sums of at least 1, so decimal, decimal1 and decimal2 divide by a number
\* that is not zero, and neither the cell nor the walk stops on a division.
C26_RowSumsPositive ==
    /\ pc # "ZeroDivisionError" /\ wpc # "ZeroDivisionError"
    /\ \A m \in TreeAndWalkNodes :
          /\ RowSumsPositive(m)
          /\ RowSumsPositive(lc(m, {}).ret)
          /\ RowSumsPositive(rc(m, {}).ret)
          /\ m.cls = "Matrix3d" => RowSumsPositive(Matrix3d_mc(m, {}).ret)

\* The walk has reached I.rc.rc.lc in the 3x3 cell, beside the tree's nodes.
C26_Witness ==
    /\ dim = 3 /\ wpc = "walk" /\ stdout = <<"R", "R", "L">>
    /\ IsMatrix(M) /\ Fields(M) = <<3, 0, 2, 3, 1, 2, 1, 0, 1>>
    /\ Matrix3d_decimal1(M) = Divide(5, 6)
    /\ Matrix3d_decimal2(M) = Divide(6, 2)
    /\ Len(sequence) = 9

----------------------------------------------------------------------------
\* C27: create_high_degree_graph leaves its input as it is: no step of the call
\* changes the nodes or the edges of `graph`, and the graph it returns is
\* another object than `graph`, the one the removals were applied to.
C27_InputUnchanged ==
    /\ [][graph'.nodes = graph.nodes /\ graph'.edges = graph.edges]_vars
    /\ [](fpc = "returned" => filtered_graph.id # graph.id)

\* The call has removed a node from its copy; the input still has it.
C27_Witness ==
    /\ fpc = "returned"
    /\ graph.nodes = {1, 2, 3} /\ graph.edges = {{1, 2}}
    /\ n_min = 1
    /\ filtered_graph.nodes = {1, 2} /\ filtered_graph.edges = {{1, 2}}

====
